---- MODULE Spec2Model ----
(***************************************************************************)
(* Query Workspace Engine of neondeveloperz/dbms (src/app/page.tsx, Home). *)
(* The React state of Home is the state of the machine; every handler is   *)
(* one action, every await splits a handler into the step that sends the   *)
(* statement and the step that applies (or drops) the executor's answer.   *)
(* Statement texts are sequences of one-character strings, so that trim,   *)
(* toUpperCase, startsWith and includes are computed as JavaScript does.   *)
(***************************************************************************)
EXTENDS Integers, Sequences, FiniteSets, TLC

(***************************************************************************)
(* Bounds of the model.                                                    *)
(***************************************************************************)
\* tabs created in one behaviour, the tab the page starts with included
MaxTabs == 2
\* statements the handlers of one behaviour send to the executor on their own
\* account (the windowed select after the count and the refresh after an edit
\* are sent by continuations and are not counted)
MaxSends == 3
\* statements one behaviour of the editor specification runs
MaxEditorRuns == 1
\* statements one behaviour of the session specification sends
MaxSessionSends == 2
\* tabs one behaviour of the tab strip specification opens, the first included
MaxStripTabs == 4
\* statements one behaviour of the grid specification sends
MaxGridSends == 2
\* rows of the table a behaviour of the sort specification starts with
MaxSortRows == 3
\* statements sent in a session of row edits, the page fetch included
MaxSynthSends == 2
\* statements run from the editor in a session of overlapping runs
MaxRaceRuns == 2
\* statements sent in a session of row saves, the page fetch included
MaxSaveSends == 3
\* statements sent in a session that edits tabs while calls are in flight
MaxFrameSends == 2
MaxOpenTabs == 3

(***************************************************************************)
(* Text: JavaScript strings as sequences of characters.                    *)
(***************************************************************************)
Lower == <<"a","b","c","d","e","f","g","h","i","j","k","l","m",
           "n","o","p","q","r","s","t","u","v","w","x","y","z">>
Upper == <<"A","B","C","D","E","F","G","H","I","J","K","L","M",
           "N","O","P","Q","R","S","T","U","V","W","X","Y","Z">>
Digits == <<"0","1","2","3","4","5","6","7","8","9">>
Whitespace == {" ", "\t", "\n"}

\* String.prototype.toUpperCase, one character
UpperChar(c) ==
  IF \E i \in 1..26 : Lower[i] = c
    THEN Upper[CHOOSE i \in 1..26 : Lower[i] = c]
    ELSE c

\* String.prototype.toUpperCase
toUpperCase(s) == [i \in 1..Len(s) |-> UpperChar(s[i])]

\* String.prototype.toLowerCase
LowerChar(c) ==
  IF \E i \in 1..26 : Upper[i] = c
    THEN Lower[CHOOSE i \in 1..26 : Upper[i] = c]
    ELSE c
toLowerCase(s) == [i \in 1..Len(s) |-> LowerChar(s[i])]

\* String.prototype.trim
trim(s) ==
  LET keep == {i \in 1..Len(s) : s[i] \notin Whitespace}
  IN IF keep = {} THEN <<>>
     ELSE LET lo == CHOOSE i \in keep : \A j \in keep : i <= j
              hi == CHOOSE i \in keep : \A j \in keep : j <= i
          IN SubSeq(s, lo, hi)

\* String.prototype.startsWith
startsWith(s, p) == Len(s) >= Len(p) /\ SubSeq(s, 1, Len(p)) = p

\* String.prototype.includes
includes(s, p) ==
  \E i \in 1..(Len(s) - Len(p) + 1) : SubSeq(s, i, i + Len(p) - 1) = p

\* `${n}` of a non-negative integer
RECURSIVE NumStr(_)
NumStr(n) ==
  IF n < 10 THEN <<Digits[n + 1]>>
  ELSE NumStr(n \div 10) \o <<Digits[(n % 10) + 1]>>

\* keywords and fragments of the template literals of page.tsx
kwSELECT == <<"S","E","L","E","C","T">>
kwLIMIT == <<"L","I","M","I","T">>
kwTOP == <<"T","O","P">>
txSelectTop == <<"S","E","L","E","C","T"," ","T","O","P"," ">>
txStarFromParen == <<" ","*"," ","F","R","O","M"," ","(">>
txAsSubqb == <<")"," ","A","S"," ","s","u","b","q","b">>
txLimit == <<" ","L","I","M","I","T"," ">>
txOffset == <<" ","O","F","F","S","E","T"," ">>
txSelectStarFrom == <<"S","E","L","E","C","T"," ","*"," ","F","R","O","M"," ">>
txOrderByOffset == <<" ","O","R","D","E","R"," ","B","Y"," ","(","S","E","L","E","C","T",
                     " ","N","U","L","L",")"," ","O","F","F","S","E","T"," ">>
txRowsFetchNext == <<" ","R","O","W","S"," ","F","E","T","C","H"," ","N","E","X","T"," ">>
txRowsOnly == <<" ","R","O","W","S"," ","O","N","L","Y">>
txSelectCount == <<"S","E","L","E","C","T"," ","C","O","U","N","T","(","*",")"," ",
                   "a","s"," ","c","o","u","n","t"," ","F","R","O","M"," ">>
txDot == <<".">>
txStar == <<"*">>


(***************************************************************************)
(* Optional values: null / undefined is the empty sequence.                *)
(***************************************************************************)
None == <<>>
Some(x) == <<x>>
IsSome(o) == o # <<>>
Get(o) == o[1]

(***************************************************************************)
(* Program constants.                                                      *)
(***************************************************************************)
\* SETTINGS_DEFAULTS.query.auto_limit
DefaultAutoLimit == 100
\* const limit = 50 of handleTableClick
PageSize == 50
\* values the settings view can store in settings.query.auto_limit: parseInt
\* of a number input
AutoLimitValues == {0 - 1, 0, DefaultAutoLimit}

\* the saved connections of the registry and their DbType
ConnNames == {"pg", "ms"}
ConnType(n) == IF n = "ms" THEN "mssql" ELSE IF n = "my" THEN "mysql" ELSE "postgres"
\* connName: null
NoConn == ""
\* activeTabId: "" ; tabIdToRun: undefined
NoId == 0
TabIds == 1..MaxTabs

(***************************************************************************)
(* Limit Rewriter: the computation of finalSql in runQuery.                *)
(* connType is conn?.type, "none" when the connection is not registered.   *)
(***************************************************************************)
\* a variant of FinalSql that looks for LIMIT only, not for TOP
FinalSqlIgnoringTop(query, autoLimit, connType) ==
  IF autoLimit > 0 /\ startsWith(toUpperCase(trim(query)), kwSELECT)
    THEN IF ~includes(toUpperCase(query), kwLIMIT)
           THEN IF connType = "mssql"
                  THEN txSelectTop \o NumStr(autoLimit) \o txStarFromParen \o query \o txAsSubqb
                  ELSE trim(query) \o txLimit \o NumStr(autoLimit)
           ELSE query
    ELSE query

\* a variant of FinalSql that appends LIMIT to the text as typed, untrimmed
FinalSqlUntrimmed(query, autoLimit, connType) ==
  IF autoLimit > 0 /\ startsWith(toUpperCase(trim(query)), kwSELECT)
    THEN IF ~includes(toUpperCase(query), kwLIMIT) /\ ~includes(toUpperCase(query), kwTOP)
           THEN IF connType = "mssql"
                  THEN txSelectTop \o NumStr(autoLimit) \o txStarFromParen \o query \o txAsSubqb
                  ELSE query \o txLimit \o NumStr(autoLimit)
           ELSE query
    ELSE query

FinalSql(query, autoLimit, connType) ==
  IF autoLimit > 0 /\ startsWith(toUpperCase(trim(query)), kwSELECT)
    THEN IF ~includes(toUpperCase(query), kwLIMIT) /\ ~includes(toUpperCase(query), kwTOP)
           THEN IF connType = "mssql"
                  THEN txSelectTop \o NumStr(autoLimit) \o txStarFromParen \o query \o txAsSubqb
                  ELSE trim(query) \o txLimit \o NumStr(autoLimit)
           ELSE query
    ELSE query

\* tableRef of constructSelectQuery and handleTableClick
SelectTableRef(tableName, schema) ==
  IF schema # <<>> /\ schema # txStar THEN schema \o txDot \o tableName ELSE tableName

constructSelectQuery(tableName, dbType, limit, offset, schema) ==
  IF dbType = "mssql"
    THEN txSelectStarFrom \o SelectTableRef(tableName, schema) \o txOrderByOffset
           \o NumStr(offset) \o txRowsFetchNext \o NumStr(limit) \o txRowsOnly
    ELSE txSelectStarFrom \o SelectTableRef(tableName, schema) \o txLimit
           \o NumStr(limit) \o txOffset \o NumStr(offset)


(***************************************************************************)
(* Cell values: the runtime values a result cell can hold (typeof).        *)
(***************************************************************************)
VNull == [t |-> "null", n |-> 0, s |-> <<>>, b |-> FALSE]
VNum(k) == [t |-> "number", n |-> k, s |-> <<>>, b |-> FALSE]
VStr(x) == [t |-> "string", n |-> 0, s |-> x, b |-> FALSE]
VBool(x) == [t |-> "boolean", n |-> 0, s |-> <<>>, b |-> x]

(***************************************************************************)
(* The query executor (invoke("execute_query")) is an external             *)
(* collaborator: it answers a statement with {columns, rows} or rejects    *)
(* with a message.  The answers it can give are drawn from these sets.     *)
(***************************************************************************)
colId == <<"i","d">>
colV == <<"v">>
Columns == <<colId, colV>>
\* the k-th row of the backend table
BackendRow(k) == <<VNum(k), IF k % 2 = 0 THEN VNull ELSE VStr(<<"a">>)>>
FullPage(limit, offset) == [i \in 1..limit |-> BackendRow(offset + i)]
ShortPage(offset) == <<BackendRow(offset + 1)>>
\* answers to a windowed select: a page of limit rows, or a shorter one
PageAnswer(limit, offset, full) ==
  [columns |-> Columns,
   rows |-> IF full THEN FullPage(limit, offset) ELSE ShortPage(offset)]
\* answers to the statement of runQuery
RunAnswers ==
  { [columns |-> Columns, rows |-> <<BackendRow(1)>>],
    [columns |-> Columns, rows |-> <<BackendRow(2), BackendRow(1)>>] }
\* countRes.rows[0][0] of a successful SELECT COUNT(*)
CountAnswers == {120}
\* String(e) / e.message of a rejected statement
ErrorMessages == {"rejected"}

(***************************************************************************)
(* Inputs of the handlers.                                                 *)
(***************************************************************************)
\* the query of the tab the page starts with
qInitial == <<"S","E","L","E","C","T"," ","*"," ","F","R","O","M"," ","s","y","s",".","t","a","b","l","e","s">>
\* texts the user types into the editor (updateActiveTabQuery)
qLowerPadded == <<" ","s","e","l","e","c","t"," ","a"," ">>
qHasLimit == <<"S","e","l","e","c","t"," ","a"," ","L","i","m","i","t"," ","5">>
qHasTop == <<"s","e","l","e","c","t"," ","t","o","p"," ","1"," ","a">>
qNotSelect == <<"u","p","d","a","t","e"," ","t">>
UserTexts == {qLowerPadded, qHasLimit, qHasTop, qNotSelect}
\* tables of the sidebar
TableNames == {<<"t">>}
titleQuery1 == <<"Q","u","e","r","y"," ","1">>
titleNewQuery == <<"N","e","w"," ","Q","u","e","r","y">>

(***************************************************************************)
(* Statement Synthesizer: formatSqlValue, constructWhereClause and the     *)
(* statements of deleteRow and updateCell.                                 *)
(***************************************************************************)
txNULL == <<"N","U","L","L">>
txTRUE == <<"T","R","U","E">>
txFALSE == <<"F","A","L","S","E">>
txQuote == <<"'">>
txMinus == <<"-">>
txIsNull == <<" ","I","S"," ","N","U","L","L">>
txEq == <<" ","="," ">>
txAnd == <<" ","A","N","D"," ">>
txDeleteFrom == <<"D","E","L","E","T","E"," ","F","R","O","M"," ">>
txWhere == <<" ","W","H","E","R","E"," ">>
txUpdate == <<"U","P","D","A","T","E"," ">>
txSet == <<" ","S","E","T"," ">>
txLowerTrue == <<"t","r","u","e">>
txLowerFalse == <<"f","a","l","s","e">>
txComma == <<",", " ">>
txInsertInto == <<"I","N","S","E","R","T"," ","I","N","T","O"," ">>
txOpenParen == <<" ", "(">>
txValues == <<")"," ","V","A","L","U","E","S"," ","(">>
txCloseParen == <<")">>

\* `${val}` of an integer
NumText(n) == IF n < 0 THEN txMinus \o NumStr(0 - n) ELSE NumStr(n)

\* a replace that leaves the text as it is
KeepQuotes(x) == x

\* val.replace(/'/g, "''")
RECURSIVE EscapeQuotes(_)
EscapeQuotes(x) ==
  IF x = <<>> THEN <<>>
  ELSE (IF Head(x) = "'" THEN <<"'", "'">> ELSE <<Head(x)>>) \o EscapeQuotes(Tail(x))

\* String(val) of a cell value
StringOf(val) ==
  CASE val.t = "null" -> <<"n","u","l","l">>
    [] val.t = "boolean" -> (IF val.b THEN txLowerTrue ELSE txLowerFalse)
    [] val.t = "number" -> NumText(val.n)
    [] OTHER -> val.s

\* a formatter that writes TRUE and FALSE under every dialect
formatSqlValueAnsi(val, dbType) ==
  CASE val.t = "null" -> txNULL
    [] val.t = "boolean" -> (IF val.b THEN txTRUE ELSE txFALSE)
    [] val.t = "number" -> NumText(val.n)
    [] OTHER -> txQuote \o EscapeQuotes(val.s) \o txQuote

formatSqlValue(val, dbType) ==
  CASE val.t = "null" -> txNULL
    [] val.t = "boolean" ->
         (IF dbType = "mssql" THEN (IF val.b THEN <<"1">> ELSE <<"0">>)
          ELSE (IF val.b THEN txTRUE ELSE txFALSE))
    [] val.t = "number" -> NumText(val.n)
    [] OTHER -> txQuote \o EscapeQuotes(val.s) \o txQuote

\* columns.map(...).join(' AND ')
RECURSIVE WhereTerms(_, _, _, _)
WhereTerms(row, columns, dbType, i) ==
  IF i > Len(columns) THEN <<>>
  ELSE (IF i > 1 THEN txAnd ELSE <<>>)
       \o (IF row[i].t = "null" THEN columns[i] \o txIsNull
           ELSE columns[i] \o txEq \o formatSqlValue(row[i], dbType))
       \o WhereTerms(row, columns, dbType, i + 1)

\* a clause that compares a null cell with = like any other
RECURSIVE WhereTermsEq(_, _, _, _)
WhereTermsEq(row, columns, dbType, i) ==
  IF i > Len(columns) THEN <<>>
  ELSE (IF i > 1 THEN txAnd ELSE <<>>)
       \o columns[i] \o txEq \o formatSqlValue(row[i], dbType)
       \o WhereTermsEq(row, columns, dbType, i + 1)
constructWhereClauseEq(row, columns, dbType) == WhereTermsEq(row, columns, dbType, 1)

constructWhereClause(row, columns, dbType) == WhereTerms(row, columns, dbType, 1)

\* schemaPrefix + tableName of deleteRow, updateCell and handleSaveNewRow
EditTableRef(tab) ==
  (IF tab.schema # <<>> THEN tab.schema \o txDot ELSE <<>>) \o tab.tableName

\* Number(text) for texts of optional sign and decimal digits around
\* whitespace: IsNumberText is !isNaN(Number(text)), NumberOf its value
IsDigits(x) == \A i \in 1..Len(x) : \E d \in 1..10 : Digits[d] = x[i]
IsNumberText(x) ==
  LET y == trim(x)
  IN \/ y = <<>>
     \/ (Len(y) >= 1 /\ IsDigits(y))
     \/ (Len(y) >= 2 /\ Head(y) \in {"-", "+"} /\ IsDigits(Tail(y)))
RECURSIVE DigitsValue(_)
DigitsValue(x) ==
  IF x = <<>> THEN 0
  ELSE 10 * DigitsValue(SubSeq(x, 1, Len(x) - 1))
       + ((CHOOSE d \in 1..10 : Digits[d] = x[Len(x)]) - 1)
NumberOf(x) ==
  LET y == trim(x)
  IN IF y = <<>> THEN 0
     ELSE IF Head(y) = "-" THEN 0 - DigitsValue(Tail(y))
     ELSE IF Head(y) = "+" THEN DigitsValue(Tail(y))
     ELSE DigitsValue(y)

\* a finalValue that follows the new text alone: a text that parses as a
\* number becomes that number whatever the cell held
updateCellFinalValueByText(originalValue, newValue) ==
  IF newValue.t = "string" /\ IsNumberText(newValue.s)
    THEN (IF trim(newValue.s) = <<>> THEN VNull ELSE VNum(NumberOf(newValue.s)))
  ELSE newValue

\* finalValue of updateCell
updateCellFinalValue(originalValue, newValue) ==
  IF originalValue.t = "number" /\ newValue.t = "string" /\ IsNumberText(newValue.s)
    THEN (IF trim(newValue.s) = <<>> THEN VNull ELSE VNum(NumberOf(newValue.s)))
  ELSE IF originalValue.t = "boolean"
    THEN (IF toLowerCase(StringOf(newValue)) = txLowerTrue THEN VBool(TRUE)
          ELSE IF toLowerCase(StringOf(newValue)) = txLowerFalse THEN VBool(FALSE)
          ELSE IF newValue = VStr(<<"1">>) THEN VBool(TRUE)
          ELSE IF newValue = VStr(<<"0">>) THEN VBool(FALSE)
          ELSE newValue)
  ELSE newValue

deleteRowSql(tab, row, columns, dbType) ==
  txDeleteFrom \o EditTableRef(tab) \o txWhere \o constructWhereClause(row, columns, dbType)

\* colIndex counts from 1 here
updateCellSql(tab, row, columns, colIndex, newValue, dbType) ==
  txUpdate \o EditTableRef(tab) \o txSet \o columns[colIndex] \o txEq
    \o formatSqlValue(updateCellFinalValue(row[colIndex], newValue), dbType)
    \o txWhere \o constructWhereClause(row, columns, dbType)

\* a draft row is Object.entries(newRowData) in insertion order: a sequence of
\* [col, val]; { ...draft, [colName]: value } keeps the place of a key it has
DraftPut(draft, colName, value) ==
  IF \E i \in 1..Len(draft) : draft[i].col = colName
    THEN [i \in 1..Len(draft) |->
            IF draft[i].col = colName THEN [col |-> colName, val |-> value] ELSE draft[i]]
    ELSE Append(draft, [col |-> colName, val |-> value])

\* columns.join(', ') and columns.map(col => formatSqlValue(...)).join(', ')
RECURSIVE DraftCols(_, _)
DraftCols(draft, i) ==
  IF i > Len(draft) THEN <<>>
  ELSE (IF i > 1 THEN txComma ELSE <<>>) \o draft[i].col \o DraftCols(draft, i + 1)
RECURSIVE DraftVals(_, _, _)
DraftVals(draft, dbType, i) ==
  IF i > Len(draft) THEN <<>>
  ELSE (IF i > 1 THEN txComma ELSE <<>>) \o formatSqlValue(draft[i].val, dbType)
       \o DraftVals(draft, dbType, i + 1)

insertRowSql(tab, draft, dbType) ==
  txInsertInto \o EditTableRef(tab) \o txOpenParen \o DraftCols(draft, 1)
    \o txValues \o DraftVals(draft, dbType, 1) \o txCloseParen

(***************************************************************************)
(* State.                                                                  *)
(***************************************************************************)
VARIABLES
  tabs,           \* useState<QueryTab[]>: the ordered tabs
  activeTabId,    \* useState<string>: id of the active tab, NoId for ""
  connections,    \* useState<Connection[]>: names of the registered connections
  activeConnName, \* useState<string | null>
  autoLimit,      \* settings.query.auto_limit
  calls,          \* executor calls in flight, in the order they were sent
  nextId,         \* the id the next crypto.randomUUID() returns
  sent,           \* statements the handlers have sent so far
  last            \* the handler or continuation that ran last, and its tab

vars == <<tabs, activeTabId, connections, activeConnName, autoLimit, calls, nextId, sent, last>>

\* a QueryTab; optional fields of the type are None when undefined
Tab(id, title, query, connName, viewType) ==
  [ id |-> id, title |-> title, query |-> query, results |-> None, error |-> None,
    connName |-> connName, isExecuting |-> FALSE, viewType |-> viewType,
    tableName |-> <<>>, schema |-> <<>>, pagination |-> None, totalRows |-> None,
    sortState |-> None, isAddingRow |-> FALSE, newRowData |-> None ]

\* an executor call in flight: the statement sent and what its continuation
\* captured (the closure of the async handler that awaits it); save tells
\* that handleSaveNewRow awaits the executeUpdate the call belongs to; seq
\* is history, not program state: the number of statements sent when a
\* runQuery called from the page sent this one
Call(kind, tab, conn, sql) ==
  [ kind |-> kind, tab |-> tab, conn |-> conn, sql |-> sql,
    limit |-> 0, offset |-> 0, total |-> 0, nextSql |-> <<>>,
    autoLimit |-> 0, activeConn |-> NoConn, conns |-> {}, save |-> FALSE,
    seq |-> 0 ]

\* what `last` holds after the step op about tab
Ran(op, tab) == [op |-> op, tab |-> tab]

Init ==
  /\ tabs = << Tab(1, titleQuery1, qInitial, NoConn, "query") >>
  /\ activeTabId = 1
  /\ connections = {}
  /\ activeConnName = NoConn
  /\ autoLimit = DefaultAutoLimit
  /\ calls = <<>>
  /\ nextId = 2
  /\ sent = 0
  /\ last = Ran("Home", NoId)

(***************************************************************************)
(* Helpers over the tab list.                                              *)
(***************************************************************************)
OpenIds(ts) == {ts[i].id : i \in 1..Len(ts)}
\* tabs.find(t => t.id === id), for an id that is open
TabOf(ts, id) == ts[CHOOSE i \in 1..Len(ts) : ts[i].id = id]
\* tabs.findIndex(t => t.id === id): 0 stands for -1, positions count from 1
findIndex(ts, id) ==
  IF id \in OpenIds(ts) THEN CHOOSE i \in 1..Len(ts) : ts[i].id = id ELSE 0
\* prev.map(t => t.id === id ? f(t) : t)
MapTab(ts, id, f(_)) == [i \in 1..Len(ts) |-> IF ts[i].id = id THEN f(ts[i]) ELSE ts[i]]
\* the sequence without its i-th element
RemoveAt(q, i) == SubSeq(q, 1, i - 1) \o SubSeq(q, i + 1, Len(q))
\* the tab leaves row-insert authoring: handleCancelAddRow, and the end of
\* handleSaveNewRow once its executeUpdate has returned
resetNewRow(ts, id) ==
  MapTab(ts, id, LAMBDA t : [t EXCEPT !.isAddingRow = FALSE, !.newRowData = None])
\* what follows the return of an executeUpdate that save says is awaited
afterUpdate(ts, id, save) == IF save THEN resetNewRow(ts, id) ELSE ts

(***************************************************************************)
(* Connection registry and settings (external collaborators of the core).  *)
(***************************************************************************)
\* the initial load effect: setConnections(mapped)
loadConnections ==
  /\ connections = {}
  /\ connections' = ConnNames
  /\ last' = Ran("loadConnections", NoId)
  /\ UNCHANGED <<tabs, activeTabId, activeConnName, autoLimit, calls, nextId, sent>>

\* a click on a connection of the sidebar
setActiveConnName(name) ==
  /\ name \in connections
  /\ activeConnName' = name
  /\ last' = Ran("setActiveConnName", NoId)
  /\ UNCHANGED <<tabs, activeTabId, connections, autoLimit, calls, nextId, sent>>

\* the settings view stores a new auto_limit
setSettings(n) ==
  /\ autoLimit' = n
  /\ last' = Ran("setSettings", NoId)
  /\ UNCHANGED <<tabs, activeTabId, connections, activeConnName, calls, nextId, sent>>

(***************************************************************************)
(* Tab list operations.                                                     *)
(***************************************************************************)
\* a variant of createNewTab that puts the new tab in front of the others
createNewTabInFront(title, query, connName) ==
  /\ nextId' = nextId + 1
  /\ LET newTab == Tab(nextId, title, query,
                       IF connName # NoConn THEN connName ELSE activeConnName, "query")
     IN /\ tabs' = <<newTab>> \o tabs
        /\ activeTabId' = newTab.id
        /\ last' = Ran("createNewTab", newTab.id)
  /\ UNCHANGED <<connections, activeConnName, autoLimit, calls, sent>>

\* createNewTab(title, query, connName): every call site leaves autoRun false
\* and viewType 'query'
createNewTab(title, query, connName) ==
  /\ nextId' = nextId + 1
  /\ LET newTab == Tab(nextId, title, query,
                       IF connName # NoConn THEN connName ELSE activeConnName, "query")
     IN /\ tabs' = Append(tabs, newTab)
        /\ activeTabId' = newTab.id
        /\ last' = Ran("createNewTab", newTab.id)
  /\ UNCHANGED <<connections, activeConnName, autoLimit, calls, sent>>

\* a click on a tab of the tab strip
setActiveTabId(id) ==
  /\ id \in OpenIds(tabs)
  /\ activeTabId' = id
  /\ last' = Ran("setActiveTabId", id)
  /\ UNCHANGED <<tabs, connections, activeConnName, autoLimit, calls, nextId, sent>>

\* a variant of closeTab that makes the first of the remaining tabs active
closeTabActivatingFirst(id) ==
  LET newTabs == SelectSeq(tabs, LAMBDA t : t.id # id)
  IN /\ tabs' = newTabs
     /\ activeTabId' =
          IF activeTabId = id
            THEN (IF Len(newTabs) > 0 THEN newTabs[1].id ELSE NoId)
            ELSE activeTabId
     /\ last' = Ran("closeTab", id)
     /\ UNCHANGED <<connections, activeConnName, autoLimit, calls, nextId, sent>>

closeTab(id) ==
  LET newTabs == SelectSeq(tabs, LAMBDA t : t.id # id)
  IN /\ tabs' = newTabs
     /\ activeTabId' =
          IF activeTabId = id
            THEN (IF Len(newTabs) > 0 THEN newTabs[Len(newTabs)].id ELSE NoId)
            ELSE activeTabId
     /\ last' = Ran("closeTab", id)
     /\ UNCHANGED <<connections, activeConnName, autoLimit, calls, nextId, sent>>

\* a variant of closeAllTabs that leaves the active tab id as it is
closeAllTabsKeepingActive ==
  /\ tabs' = <<>>
  /\ last' = Ran("closeAllTabs", NoId)
  /\ UNCHANGED <<activeTabId, connections, activeConnName, autoLimit, calls, nextId, sent>>

closeAllTabs ==
  /\ tabs' = <<>>
  /\ activeTabId' = NoId
  /\ last' = Ran("closeAllTabs", NoId)
  /\ UNCHANGED <<connections, activeConnName, autoLimit, calls, nextId, sent>>

\* a variant of closeTabsToRight that closes the tab itself as well
closeTabsFrom(id) ==
  LET index == findIndex(tabs, id)
      activeIndex == findIndex(tabs, activeTabId)
  IN /\ tabs' = IF index = 0 THEN tabs ELSE SubSeq(tabs, 1, index - 1)
     /\ activeTabId' = IF index # 0 /\ activeIndex > index THEN id ELSE activeTabId
     /\ last' = Ran("closeTabsToRight", id)
     /\ UNCHANGED <<connections, activeConnName, autoLimit, calls, nextId, sent>>

\* a variant of closeTabsToRight that makes the tab active whenever it is open
closeTabsToRightActivating(id) ==
  LET index == findIndex(tabs, id)
  IN /\ tabs' = IF index = 0 THEN tabs ELSE SubSeq(tabs, 1, index)
     /\ activeTabId' = IF index # 0 THEN id ELSE activeTabId
     /\ last' = Ran("closeTabsToRight", id)
     /\ UNCHANGED <<connections, activeConnName, autoLimit, calls, nextId, sent>>

closeTabsToRight(id) ==
  LET index == findIndex(tabs, id)
      activeIndex == findIndex(tabs, activeTabId)
  IN /\ tabs' = IF index = 0 THEN tabs ELSE SubSeq(tabs, 1, index)
     /\ activeTabId' = IF index # 0 /\ activeIndex > index THEN id ELSE activeTabId
     /\ last' = Ran("closeTabsToRight", id)
     /\ UNCHANGED <<connections, activeConnName, autoLimit, calls, nextId, sent>>

\* the editor's onChange
updateActiveTabQuery(newQuery) ==
  /\ tabs' = MapTab(tabs, activeTabId, LAMBDA t : [t EXCEPT !.query = newQuery])
  /\ last' = Ran("updateActiveTabQuery", activeTabId)
  /\ UNCHANGED <<activeTabId, connections, activeConnName, autoLimit, calls, nextId, sent>>

(***************************************************************************)
(* runQuery.  The part before the await is runQueryStarts / runQueryTabs / *)
(* runQueryCall, evaluated with the values its closure holds: the caller   *)
(* is the Run button (the current render) or executeUpdate (the render in  *)
(* which the row edit was made).  tabsRef.current is always the current    *)
(* tab list.                                                               *)
(***************************************************************************)
\* a variant of runQueryStarts that does not look for a connection
runQueryStartsUnconnected(ts, targetTabId, envActiveConn) ==
  targetTabId \in OpenIds(ts)

\* neither early return is taken
runQueryStarts(ts, targetTabId, envActiveConn) ==
  /\ targetTabId \in OpenIds(ts)
  /\ (TabOf(ts, targetTabId).connName # NoConn \/ envActiveConn # NoConn)

\* a variant of runQueryTabs that marks every tab, not only the target
runQueryTabsMarkingAll(ts, targetTabId) ==
  [i \in 1..Len(ts) |-> [ts[i] EXCEPT !.isExecuting = TRUE, !.error = None]]

\* setTabs(prev => prev.map(... isExecuting: true, error: null ...))
runQueryTabs(ts, targetTabId) ==
  MapTab(ts, targetTabId, LAMBDA t : [t EXCEPT !.isExecuting = TRUE, !.error = None])

\* the invoke("execute_query") of runQuery
runQueryCall(ts, targetTabId, envActiveConn, envAutoLimit, envConns) ==
  LET tab == TabOf(ts, targetTabId)
      targetConnName == IF tab.connName # NoConn THEN tab.connName ELSE envActiveConn
      connType == IF targetConnName \in envConns THEN ConnType(targetConnName) ELSE "none"
  IN [ Call("run", targetTabId, targetConnName, FinalSql(tab.query, envAutoLimit, connType))
         EXCEPT !.autoLimit = envAutoLimit ]

runQuery(tabIdToRun) ==
  LET targetTabId == IF tabIdToRun # NoId THEN tabIdToRun ELSE activeTabId
  IN /\ last' = Ran("runQuery", targetTabId)
     /\ IF runQueryStarts(tabs, targetTabId, activeConnName)
          THEN /\ sent < MaxSends
               /\ sent' = sent + 1
               /\ tabs' = runQueryTabs(tabs, targetTabId)
               /\ calls' = Append(calls,
                             [ runQueryCall(tabs, targetTabId, activeConnName,
                                            autoLimit, connections)
                                 EXCEPT !.seq = sent + 1 ])
               /\ UNCHANGED <<activeTabId, connections, activeConnName, autoLimit, nextId>>
          ELSE UNCHANGED <<tabs, activeTabId, connections, activeConnName, autoLimit,
                           calls, nextId, sent>>

\* a variant of runQueryResolves that puts its tab back when it is no longer
\* open (an upsert where the code maps)
runQueryResolvesReopening(i, res) ==
  /\ i \in 1..Len(calls) /\ calls[i].kind = "run"
  /\ tabs' = IF calls[i].tab \in OpenIds(tabs)
               THEN MapTab(tabs, calls[i].tab,
                      LAMBDA t : [t EXCEPT !.results = Some(res), !.isExecuting = FALSE])
               ELSE Append(tabs, [ Tab(calls[i].tab, <<>>, <<>>, calls[i].conn, "query")
                                     EXCEPT !.results = Some(res) ])
  /\ calls' = RemoveAt(calls, i)
  /\ last' = Ran("runQueryResolves", calls[i].tab)
  /\ UNCHANGED <<activeTabId, connections, activeConnName, autoLimit, nextId, sent>>

\* the await of runQuery resolves
runQueryResolves(i, res) ==
  /\ i \in 1..Len(calls) /\ calls[i].kind = "run"
  /\ tabs' = afterUpdate(
               MapTab(tabs, calls[i].tab,
                      LAMBDA t : [t EXCEPT !.results = Some(res), !.isExecuting = FALSE]),
               calls[i].tab, calls[i].save)
  /\ calls' = RemoveAt(calls, i)
  /\ last' = Ran("runQueryResolves", calls[i].tab)
  /\ UNCHANGED <<activeTabId, connections, activeConnName, autoLimit, nextId, sent>>

\* a variant of runQueryRejects that records the message and leaves the tab
\* executing
runQueryRejectsStillExecuting(i, msg) ==
  /\ i \in 1..Len(calls) /\ calls[i].kind = "run"
  /\ tabs' = MapTab(tabs, calls[i].tab, LAMBDA t : [t EXCEPT !.error = Some(msg)])
  /\ calls' = RemoveAt(calls, i)
  /\ last' = Ran("runQueryRejects", calls[i].tab)
  /\ UNCHANGED <<activeTabId, connections, activeConnName, autoLimit, nextId, sent>>

\* the await of runQuery rejects: the catch block
runQueryRejects(i, msg) ==
  /\ i \in 1..Len(calls) /\ calls[i].kind = "run"
  /\ tabs' = afterUpdate(
               MapTab(tabs, calls[i].tab,
                      LAMBDA t : [t EXCEPT !.error = Some(msg), !.isExecuting = FALSE]),
               calls[i].tab, calls[i].save)
  /\ calls' = RemoveAt(calls, i)
  /\ last' = Ran("runQueryRejects", calls[i].tab)
  /\ UNCHANGED <<activeTabId, connections, activeConnName, autoLimit, nextId, sent>>

(***************************************************************************)
(* Result Window Manager: handleTableClick (openTable) and handleLoadMore. *)
(***************************************************************************)
\* a variant of openTable whose search compares the schema of a tab with the
\* selected schema even when every schema is selected
openTableExactSchema(tableName, selSchema, maxTabs) ==
  LET currentSchema == IF activeConnName # NoConn THEN selSchema ELSE <<>>
      schemaGiven == currentSchema # <<>> /\ currentSchema # txStar
      matches(t) == /\ t.viewType = "data"
                    /\ t.tableName = tableName
                    /\ t.connName = activeConnName
                    /\ t.schema = currentSchema
      found == {i \in 1..Len(tabs) : matches(tabs[i])}
      tableRef == IF schemaGiven THEN currentSchema \o txDot \o tableName ELSE tableName
      schemaArg == IF schemaGiven THEN currentSchema ELSE <<>>
      initialQuery == constructSelectQuery(tableName, ConnType(activeConnName),
                                           PageSize, 0, schemaArg)
      newTab == [ Tab(nextId, tableName, initialQuery, activeConnName, "data")
                    EXCEPT !.isExecuting = TRUE,
                           !.tableName = tableName,
                           !.schema = schemaArg,
                           !.pagination = Some([limit |-> PageSize, offset |-> 0,
                                                hasMore |-> TRUE, isLoading |-> TRUE]) ]
      countCall == [ Call("count", newTab.id, activeConnName, txSelectCount \o tableRef)
                       EXCEPT !.limit = PageSize, !.offset = 0, !.nextSql = initialQuery ]
  IN IF found # {}
       THEN LET existingTab == tabs[CHOOSE i \in found : \A j \in found : i <= j]
            IN /\ activeTabId' = existingTab.id
               /\ last' = Ran("handleTableClick", existingTab.id)
               /\ UNCHANGED <<tabs, connections, activeConnName, autoLimit, calls, nextId, sent>>
     ELSE IF activeConnName \notin connections
       THEN /\ last' = Ran("handleTableClick", NoId)
            /\ UNCHANGED <<tabs, activeTabId, connections, activeConnName, autoLimit,
                           calls, nextId, sent>>
     ELSE /\ nextId <= maxTabs
          /\ sent < MaxSends
          /\ nextId' = nextId + 1
          /\ sent' = sent + 1
          /\ tabs' = Append(tabs, newTab)
          /\ activeTabId' = newTab.id
          /\ calls' = Append(calls, countCall)
          /\ last' = Ran("handleTableClick", newTab.id)
          /\ UNCHANGED <<connections, activeConnName, autoLimit>>

\* selSchema is selectedSchema[activeConnName], which the sidebar sets
\* freely and only this handler reads
openTable(tableName, selSchema, maxTabs) ==
  LET currentSchema == IF activeConnName # NoConn THEN selSchema ELSE <<>>
      schemaGiven == currentSchema # <<>> /\ currentSchema # txStar
      matches(t) == /\ t.viewType = "data"
                    /\ t.tableName = tableName
                    /\ t.connName = activeConnName
                    /\ (schemaGiven => t.schema = currentSchema)
      found == {i \in 1..Len(tabs) : matches(tabs[i])}
      tableRef == IF schemaGiven THEN currentSchema \o txDot \o tableName ELSE tableName
      schemaArg == IF schemaGiven THEN currentSchema ELSE <<>>
      initialQuery == constructSelectQuery(tableName, ConnType(activeConnName),
                                           PageSize, 0, schemaArg)
      newTab == [ Tab(nextId, tableName, initialQuery, activeConnName, "data")
                    EXCEPT !.isExecuting = TRUE,
                           !.tableName = tableName,
                           !.schema = schemaArg,
                           !.pagination = Some([limit |-> PageSize, offset |-> 0,
                                                hasMore |-> TRUE, isLoading |-> TRUE]) ]
      countCall == [ Call("count", newTab.id, activeConnName, txSelectCount \o tableRef)
                       EXCEPT !.limit = PageSize, !.offset = 0, !.nextSql = initialQuery ]
  IN IF found # {}
       THEN LET existingTab == tabs[CHOOSE i \in found : \A j \in found : i <= j]
            IN /\ activeTabId' = existingTab.id
               /\ last' = Ran("handleTableClick", existingTab.id)
               /\ UNCHANGED <<tabs, connections, activeConnName, autoLimit, calls, nextId, sent>>
     ELSE IF activeConnName \notin connections
       THEN /\ last' = Ran("handleTableClick", NoId)
            /\ UNCHANGED <<tabs, activeTabId, connections, activeConnName, autoLimit,
                           calls, nextId, sent>>
     ELSE /\ nextId <= maxTabs
          /\ sent < MaxSends
          /\ nextId' = nextId + 1
          /\ sent' = sent + 1
          /\ tabs' = Append(tabs, newTab)
          /\ activeTabId' = newTab.id
          /\ calls' = Append(calls, countCall)
          /\ last' = Ran("handleTableClick", newTab.id)
          /\ UNCHANGED <<connections, activeConnName, autoLimit>>

\* the sidebar of the page: at most MaxTabs tabs are ever opened
handleTableClick(tableName, selSchema) == openTable(tableName, selSchema, MaxTabs)

\* a variant of tableLoadFailed that also gives the tab an empty window
tableLoadFailedWithEmptyWindow(t, msg) ==
  [t EXCEPT !.isExecuting = FALSE,
            !.error = Some(msg),
            !.results = Some([columns |-> <<>>, rows |-> <<>>]),
            !.pagination = Some([Get(t.pagination) EXCEPT !.isLoading = FALSE])]

\* the catch block of handleTableClick
tableLoadFailed(t, msg) ==
  [t EXCEPT !.isExecuting = FALSE,
            !.error = Some(msg),
            !.pagination = Some([Get(t.pagination) EXCEPT !.isLoading = FALSE])]

\* the SELECT COUNT(*) resolves: the windowed select is sent
tableCountResolves(i, n) ==
  /\ i \in 1..Len(calls) /\ calls[i].kind = "count"
  /\ calls' = Append(RemoveAt(calls, i),
                     [ Call("data", calls[i].tab, calls[i].conn, calls[i].nextSql)
                         EXCEPT !.limit = calls[i].limit, !.offset = calls[i].offset,
                                !.total = n ])
  /\ last' = Ran("tableCountResolves", calls[i].tab)
  /\ UNCHANGED <<tabs, activeTabId, connections, activeConnName, autoLimit, nextId, sent>>

\* the SELECT COUNT(*) rejects: the catch block runs, no windowed select is sent
tableCountRejects(i, msg) ==
  /\ i \in 1..Len(calls) /\ calls[i].kind = "count"
  /\ tabs' = MapTab(tabs, calls[i].tab, LAMBDA t : tableLoadFailed(t, msg))
  /\ calls' = RemoveAt(calls, i)
  /\ last' = Ran("tableCountRejects", calls[i].tab)
  /\ UNCHANGED <<activeTabId, connections, activeConnName, autoLimit, nextId, sent>>

\* a variant of tableDataApplied that always expects a further page
tableDataAppliedExpectingMore(t, c, res) ==
  [t EXCEPT !.isExecuting = FALSE,
            !.results = Some(res),
            !.totalRows = Some(c.total),
            !.pagination = Some([limit |-> c.limit, offset |-> c.offset,
                                 hasMore |-> TRUE,
                                 isLoading |-> FALSE])]

\* the windowed select resolves with res
tableDataApplied(t, c, res) ==
  [t EXCEPT !.isExecuting = FALSE,
            !.results = Some(res),
            !.totalRows = Some(c.total),
            !.pagination = Some([limit |-> c.limit, offset |-> c.offset,
                                 hasMore |-> Len(res.rows) = c.limit,
                                 isLoading |-> FALSE])]

tableDataResolves(i, full) ==
  /\ i \in 1..Len(calls) /\ calls[i].kind = "data"
  /\ tabs' = MapTab(tabs, calls[i].tab,
       LAMBDA t : tableDataApplied(t, calls[i],
                                   PageAnswer(calls[i].limit, calls[i].offset, full)))
  /\ calls' = RemoveAt(calls, i)
  /\ last' = Ran("tableDataResolves", calls[i].tab)
  /\ UNCHANGED <<activeTabId, connections, activeConnName, autoLimit, nextId, sent>>

tableDataRejects(i, msg) ==
  /\ i \in 1..Len(calls) /\ calls[i].kind = "data"
  /\ tabs' = MapTab(tabs, calls[i].tab, LAMBDA t : tableLoadFailed(t, msg))
  /\ calls' = RemoveAt(calls, i)
  /\ last' = Ran("tableDataRejects", calls[i].tab)
  /\ UNCHANGED <<activeTabId, connections, activeConnName, autoLimit, nextId, sent>>

\* the first setTabs of handleLoadMore
loadMoreMarked(t) ==
  IF IsSome(t.pagination) /\ ~Get(t.pagination).isLoading /\ Get(t.pagination).hasMore
    THEN [t EXCEPT !.pagination = Some([Get(t.pagination) EXCEPT !.isLoading = TRUE])]
    ELSE t

\* a variant of loadMoreFailed that forgets to clear isLoading
loadMoreFailedStillLoading(t) == t

\* a variant of loadMoreFailed that also ends the paging of the tab
loadMoreFailedEndsPaging(t) ==
  [t EXCEPT !.pagination = Some([Get(t.pagination) EXCEPT !.isLoading = FALSE,
                                                          !.hasMore = FALSE])]

\* the catch block of handleLoadMore
loadMoreFailed(t) ==
  [t EXCEPT !.pagination = Some([Get(t.pagination) EXCEPT !.isLoading = FALSE])]

\* the early return of handleLoadMore is taken
loadMoreReturns(ts, tabId) ==
  \/ tabId \notin OpenIds(ts)
  \/ ~IsSome(TabOf(ts, tabId).pagination)
  \/ TabOf(ts, tabId).connName = NoConn
  \/ TabOf(ts, tabId).tableName = <<>>

handleLoadMore(tabId) ==
  LET marked == MapTab(tabs, tabId, LAMBDA t : loadMoreMarked(t))
      tab == TabOf(tabs, tabId)
      newOffset == Get(tab.pagination).offset + Get(tab.pagination).limit
      query == constructSelectQuery(tab.tableName, ConnType(tab.connName),
                                    Get(tab.pagination).limit, newOffset, tab.schema)
  IN /\ last' = Ran("handleLoadMore", tabId)
     /\ IF loadMoreReturns(tabs, tabId)
          THEN /\ tabs' = marked
               /\ UNCHANGED <<activeTabId, connections, activeConnName, autoLimit,
                              calls, nextId, sent>>
        ELSE IF tab.connName \notin connections
          THEN \* throw new Error("Connection not found"), caught at once
               /\ tabs' = MapTab(marked, tabId, LAMBDA t : loadMoreFailed(t))
               /\ UNCHANGED <<activeTabId, connections, activeConnName, autoLimit,
                              calls, nextId, sent>>
        ELSE /\ sent < MaxSends
             /\ sent' = sent + 1
             /\ tabs' = marked
             /\ calls' = Append(calls,
                  [ Call("more", tabId, tab.connName, query)
                      EXCEPT !.limit = Get(tab.pagination).limit, !.offset = newOffset ])
             /\ UNCHANGED <<activeTabId, connections, activeConnName, autoLimit, nextId>>

\* a variant of loadMoreApplied that also drops the sort of the tab
loadMoreAppliedUnsorted(t, c, res) ==
  [t EXCEPT !.results =
              Some([columns |-> IF IsSome(t.results) THEN Get(t.results).columns
                                ELSE res.columns,
                    rows |-> (IF IsSome(t.results) THEN Get(t.results).rows ELSE <<>>)
                               \o res.rows]),
            !.pagination = Some([limit |-> c.limit, offset |-> c.offset,
                                 hasMore |-> Len(res.rows) = c.limit,
                                 isLoading |-> FALSE]),
            !.sortState = None]

\* the second setTabs of handleLoadMore: the page is appended
loadMoreApplied(t, c, res) ==
  [t EXCEPT !.results =
              Some([columns |-> IF IsSome(t.results) THEN Get(t.results).columns
                                ELSE res.columns,
                    rows |-> (IF IsSome(t.results) THEN Get(t.results).rows ELSE <<>>)
                               \o res.rows]),
            !.pagination = Some([limit |-> c.limit, offset |-> c.offset,
                                 hasMore |-> Len(res.rows) = c.limit,
                                 isLoading |-> FALSE])]

loadMoreResolves(i, full) ==
  /\ i \in 1..Len(calls) /\ calls[i].kind = "more"
  /\ tabs' = MapTab(tabs, calls[i].tab,
       LAMBDA t : loadMoreApplied(t, calls[i],
                                  PageAnswer(calls[i].limit, calls[i].offset, full)))
  /\ calls' = RemoveAt(calls, i)
  /\ last' = Ran("loadMoreResolves", calls[i].tab)
  /\ UNCHANGED <<activeTabId, connections, activeConnName, autoLimit, nextId, sent>>

loadMoreRejects(i, msg) ==
  /\ i \in 1..Len(calls) /\ calls[i].kind = "more"
  /\ tabs' = MapTab(tabs, calls[i].tab, LAMBDA t : loadMoreFailed(t))
  /\ calls' = RemoveAt(calls, i)
  /\ last' = Ran("loadMoreRejects", calls[i].tab)
  /\ UNCHANGED <<activeTabId, connections, activeConnName, autoLimit, nextId, sent>>

(***************************************************************************)
(* Row edits: deleteRow and updateCell hand a synthesized statement to     *)
(* executeUpdate, which refreshes the tab with runQuery when it resolves.  *)
(***************************************************************************)
\* conn?.type || 'postgres'
EditDbType(connName) == IF connName \in connections THEN ConnType(connName) ELSE "postgres"

\* executeUpdate up to its await; its closure holds the runQuery of this render
executeUpdate(connName, sql, tabId) ==
  /\ sent < MaxSends
  /\ sent' = sent + 1
  /\ calls' = Append(calls,
       [ Call("update", tabId, connName, sql)
           EXCEPT !.autoLimit = autoLimit, !.activeConn = activeConnName,
                  !.conns = connections ])
  /\ UNCHANGED <<tabs, activeTabId, connections, activeConnName, autoLimit, nextId>>

\* the early return of deleteRow and of updateCell is not taken
editStarts(ts, tabId) ==
  /\ tabId \in OpenIds(ts)
  /\ TabOf(ts, tabId).tableName # <<>>
  /\ TabOf(ts, tabId).connName # NoConn

deleteRow(tabId, row, columns) ==
  /\ last' = Ran("deleteRow", tabId)
  /\ IF editStarts(tabs, tabId)
       THEN LET tab == TabOf(tabs, tabId)
            IN executeUpdate(tab.connName,
                             deleteRowSql(tab, row, columns, EditDbType(tab.connName)), tabId)
       ELSE UNCHANGED <<tabs, activeTabId, connections, activeConnName, autoLimit,
                        calls, nextId, sent>>

updateCell(tabId, row, columns, colIndex, newValue) ==
  /\ last' = Ran("updateCell", tabId)
  /\ IF editStarts(tabs, tabId)
       THEN LET tab == TabOf(tabs, tabId)
            IN executeUpdate(tab.connName,
                             updateCellSql(tab, row, columns, colIndex, newValue,
                                           EditDbType(tab.connName)), tabId)
       ELSE UNCHANGED <<tabs, activeTabId, connections, activeConnName, autoLimit,
                        calls, nextId, sent>>

\* the statement of executeUpdate resolves: await runQuery(tabId)
executeUpdateResolves(i) ==
  /\ i \in 1..Len(calls) /\ calls[i].kind = "update"
  /\ LET c == calls[i]
     IN IF runQueryStarts(tabs, c.tab, c.activeConn)
          THEN /\ tabs' = runQueryTabs(tabs, c.tab)
               /\ calls' = Append(RemoveAt(calls, i),
                                  [ runQueryCall(tabs, c.tab, c.activeConn, c.autoLimit, c.conns)
                                      EXCEPT !.save = c.save ])
          ELSE /\ tabs' = afterUpdate(tabs, c.tab, c.save)
               /\ calls' = RemoveAt(calls, i)
  /\ last' = Ran("executeUpdateResolves", calls[i].tab)
  /\ UNCHANGED <<activeTabId, connections, activeConnName, autoLimit, nextId, sent>>

\* a variant of executeUpdateRejects that refreshes the tab all the same
executeUpdateRejectsRefreshing(i, msg) ==
  /\ i \in 1..Len(calls) /\ calls[i].kind = "update"
  /\ LET c == calls[i]
     IN /\ tabs' = runQueryTabs(tabs, c.tab)
        /\ calls' = Append(RemoveAt(calls, i),
                           [ runQueryCall(tabs, c.tab, c.activeConn, c.autoLimit, c.conns)
                               EXCEPT !.save = c.save ])
  /\ last' = Ran("executeUpdateRejects", calls[i].tab)
  /\ UNCHANGED <<activeTabId, connections, activeConnName, autoLimit, nextId, sent>>

\* the statement of executeUpdate rejects: the catch block only logs
executeUpdateRejects(i, msg) ==
  /\ i \in 1..Len(calls) /\ calls[i].kind = "update"
  /\ tabs' = afterUpdate(tabs, calls[i].tab, calls[i].save)
  /\ calls' = RemoveAt(calls, i)
  /\ last' = Ran("executeUpdateRejects", calls[i].tab)
  /\ UNCHANGED <<activeTabId, connections, activeConnName, autoLimit, nextId, sent>>

(***************************************************************************)
(* Row-insert authoring: handleAddRow, handleCancelAddRow,                 *)
(* handleUpdateNewRowData and handleSaveNewRow.                            *)
(***************************************************************************)
handleAddRow(tabId) ==
  /\ tabs' = MapTab(tabs, tabId,
                    LAMBDA t : [t EXCEPT !.isAddingRow = TRUE, !.newRowData = Some(<<>>)])
  /\ last' = Ran("handleAddRow", tabId)
  /\ UNCHANGED <<activeTabId, connections, activeConnName, autoLimit, calls, nextId, sent>>

handleCancelAddRow(tabId) ==
  /\ tabs' = resetNewRow(tabs, tabId)
  /\ last' = Ran("handleCancelAddRow", tabId)
  /\ UNCHANGED <<activeTabId, connections, activeConnName, autoLimit, calls, nextId, sent>>

handleUpdateNewRowData(tabId, colName, value) ==
  /\ tabs' = MapTab(tabs, tabId,
        LAMBDA t : [t EXCEPT !.newRowData =
                      Some(DraftPut(IF IsSome(t.newRowData) THEN Get(t.newRowData) ELSE <<>>,
                                    colName, value))])
  /\ last' = Ran("handleUpdateNewRowData", tabId)
  /\ UNCHANGED <<activeTabId, connections, activeConnName, autoLimit, calls, nextId, sent>>

\* the early return of handleSaveNewRow is not taken
saveStarts(ts, tabId) ==
  /\ tabId \in OpenIds(ts)
  /\ TabOf(ts, tabId).tableName # <<>>
  /\ TabOf(ts, tabId).connName # NoConn
  /\ IsSome(TabOf(ts, tabId).newRowData)

\* handleSaveNewRow up to its await of executeUpdate; the rest of it runs
\* when that executeUpdate returns (afterUpdate)
handleSaveNewRow(tabId) ==
  /\ last' = Ran("handleSaveNewRow", tabId)
  /\ IF ~saveStarts(tabs, tabId)
       THEN UNCHANGED <<tabs, activeTabId, connections, activeConnName, autoLimit,
                        calls, nextId, sent>>
       ELSE LET tab == TabOf(tabs, tabId)
                draft == Get(tab.newRowData)
            IN IF draft = <<>>
                 THEN /\ tabs' = resetNewRow(tabs, tabId)
                      /\ UNCHANGED <<activeTabId, connections, activeConnName, autoLimit,
                                     calls, nextId, sent>>
                 ELSE /\ sent < MaxSends
                      /\ sent' = sent + 1
                      /\ calls' = Append(calls,
                           [ Call("update", tabId, tab.connName,
                                  insertRowSql(tab, draft, EditDbType(tab.connName)))
                               EXCEPT !.autoLimit = autoLimit, !.activeConn = activeConnName,
                                      !.conns = connections, !.save = TRUE ])
                      /\ UNCHANGED <<tabs, activeTabId, connections, activeConnName,
                                     autoLimit, nextId>>

(***************************************************************************)
(* What the rendered page offers (QueryEditor.tsx, Sidebar).               *)
(***************************************************************************)
\* the active tab is open and of the given viewType
ActiveTabIs(viewType) ==
  activeTabId \in OpenIds(tabs) /\ TabOf(tabs, activeTabId).viewType = viewType
\* the toolbar with the Run button is rendered for query tabs
clickRun == ActiveTabIs("query") /\ runQuery(NoId)
\* the rows of the grid of a data tab can be edited and deleted
GridRows ==
  IF ActiveTabIs("data") /\ IsSome(TabOf(tabs, activeTabId).results)
    THEN Get(TabOf(tabs, activeTabId).results).rows ELSE <<>>
GridColumns ==
  IF ActiveTabIs("data") /\ IsSome(TabOf(tabs, activeTabId).results)
    THEN Get(TabOf(tabs, activeTabId).results).columns ELSE <<>>
\* the row an edit starts from: the first on display
confirmDeleteRow == GridRows # <<>> /\ deleteRow(activeTabId, GridRows[1], GridColumns)
\* the text typed into an edited cell
NewValues == {VStr(<<"7">>)}
confirmUpdateCell(colIndex, newValue) ==
  /\ GridRows # <<>>
  /\ colIndex \in 1..Len(GridColumns)
  /\ updateCell(activeTabId, GridRows[1], GridColumns, colIndex, newValue)
\* the schema selected in the sidebar
SelectedSchemas == {txStar}

(***************************************************************************)
(* The page: every handler and every continuation.                         *)
(***************************************************************************)
Next ==
  \/ loadConnections
  \/ \E name \in ConnNames : setActiveConnName(name)
  \/ (nextId <= MaxTabs /\ createNewTab(titleNewQuery, <<>>, NoConn))
  \/ \E id \in TabIds : setActiveTabId(id)
  \/ \E id \in OpenIds(tabs) : closeTab(id)
  \/ closeAllTabs
  \/ \E id \in OpenIds(tabs) : closeTabsToRight(id)
  \/ clickRun
  \/ \E i \in DOMAIN calls, res \in RunAnswers : runQueryResolves(i, res)
  \/ \E i \in DOMAIN calls, msg \in ErrorMessages : runQueryRejects(i, msg)
  \/ \E name \in TableNames, sch \in SelectedSchemas : handleTableClick(name, sch)
  \/ \E i \in DOMAIN calls, n \in CountAnswers : tableCountResolves(i, n)
  \/ \E i \in DOMAIN calls, msg \in ErrorMessages : tableCountRejects(i, msg)
  \/ \E i \in DOMAIN calls, full \in BOOLEAN : tableDataResolves(i, full)
  \/ \E i \in DOMAIN calls, msg \in ErrorMessages : tableDataRejects(i, msg)
  \/ \E id \in OpenIds(tabs) : handleLoadMore(id)
  \/ \E i \in DOMAIN calls, full \in BOOLEAN : loadMoreResolves(i, full)
  \/ \E i \in DOMAIN calls, msg \in ErrorMessages : loadMoreRejects(i, msg)
  \/ confirmDeleteRow
  \/ \E col \in 1..Len(Columns), v \in NewValues : confirmUpdateCell(col, v)
  \/ \E i \in DOMAIN calls : executeUpdateResolves(i)
  \/ \E i \in DOMAIN calls, msg \in ErrorMessages : executeUpdateRejects(i, msg)

Spec == Init /\ [][Next]_vars

(***************************************************************************)
(* The editor of a query tab: the user types statements, changes the       *)
(* auto-limit setting and the active connection, and runs what was typed.  *)
(***************************************************************************)
NextEditor ==
  \/ loadConnections
  \/ \E name \in ConnNames : setActiveConnName(name)
  \/ \E n \in AutoLimitValues : setSettings(n)
  \/ \E q \in UserTexts : updateActiveTabQuery(q)
  \/ (sent < MaxEditorRuns /\ clickRun)
  \/ \E i \in DOMAIN calls, res \in RunAnswers : runQueryResolves(i, res)
  \/ \E i \in DOMAIN calls, msg \in ErrorMessages : runQueryRejects(i, msg)

SpecEditor == Init /\ [][NextEditor]_vars

(***************************************************************************)
(* Vocabulary of the properties.                                           *)
(***************************************************************************)
\* the kinds of executor call that are executes of a tab: runQuery's
\* statement, and the count and the windowed select of a table load
ExecuteKinds == {"run", "count", "data"}
\* the calls in flight for tab id whose kind is in kinds
CallsOf(id, kinds) == {k \in DOMAIN calls : calls[k].tab = id /\ calls[k].kind \in kinds}
\* the continuations that take an answer of the executor
Resolutions == {"runQueryResolves", "tableCountResolves", "tableDataResolves",
                "loadMoreResolves", "executeUpdateResolves"}
Rejections == {"runQueryRejects", "tableCountRejects", "tableDataRejects",
               "loadMoreRejects", "executeUpdateRejects"}

(***************************************************************************)
(* C1..C3: executes of one tab, and answers for closed tabs.               *)
(***************************************************************************)
\* C1: a runQuery call on a tab that has a runQuery statement in flight is a
\* no-op: it sends no statement and changes no field of any tab.
C1_RunQueryWhileExecutingIsNoOp ==
  [][\A id \in TabIds :
       (CallsOf(id, {"run"}) # {} /\ last' = Ran("runQuery", id))
         => (calls' = calls /\ tabs' = tabs)]_vars

\* C2: in every reachable state a tab with isExecuting has exactly one
\* execute in flight, so no tab ever has two.
C2_ExecutingHasOneCallInFlight ==
  \A i \in DOMAIN tabs :
    tabs[i].isExecuting => Cardinality(CallsOf(tabs[i].id, ExecuteKinds)) = 1

\* C3: when the answer (success or failure) of a call arrives for a tab
\* that is no longer open, the step changes neither the tab list nor the
\* active tab: the tab is not put back and the other tabs are untouched.
C3_AnswerForClosedTabIsDropped ==
  [][(last'.op \in Resolutions \cup Rejections /\ last'.tab \notin OpenIds(tabs))
       => (tabs' = tabs /\ activeTabId' = activeTabId)]_vars

\* C3 happens: an answer has just been taken for a tab that was closed
\* while its call was in flight, and another tab is still open
C3_Witness ==
  /\ last.op \in Resolutions \cup Rejections
  /\ last.tab \notin OpenIds(tabs)
  /\ last.tab \in 1..(nextId - 1)
  /\ tabs # <<>>

(***************************************************************************)
(* C4..C8: table loads, loadMore and failures of the executor.             *)
(***************************************************************************)
\* rows on display in tab t
RowsOf(t) == IF IsSome(t.results) THEN Get(t.results).rows ELSE <<>>

\* C4: when the SELECT COUNT(*) of a table load fails, the failure is not
\* shown as the error of the tab and the windowed select is still sent, so
\* that its rows can be displayed.
C4_CountFailureDoesNotBlockData ==
  [][(last'.op = "tableCountRejects" /\ last'.tab \in OpenIds(tabs))
       => /\ TabOf(tabs', last'.tab).error = TabOf(tabs, last'.tab).error
          /\ \E k \in DOMAIN calls' :
               calls'[k].tab = last'.tab /\ calls'[k].kind = "data"]_vars

\* C5: loadMore on a tab whose pagination has isLoading = true or
\* hasMore = false sends no statement and leaves the tab as it is.
C5_LoadMoreGuardedIsNoOp ==
  [][\A id \in OpenIds(tabs) :
       (/\ last' = Ran("handleLoadMore", id)
        /\ IsSome(TabOf(tabs, id).pagination)
        /\ (Get(TabOf(tabs, id).pagination).isLoading
              \/ ~Get(TabOf(tabs, id).pagination).hasMore))
         => (calls' = calls /\ tabs' = tabs)]_vars

\* C6: the step that takes the page of a successful loadMore appends the
\* page to the rows on display (the rows before are a prefix of the rows
\* after, and the page follows them) and advances offset by exactly limit.
C6_LoadMoreAppendsAndAdvances ==
  [][\A i \in DOMAIN calls :
       (/\ last' = Ran("loadMoreResolves", calls[i].tab)
        /\ calls' = RemoveAt(calls, i)
        /\ calls[i].kind = "more"
        /\ calls[i].tab \in OpenIds(tabs))
         => LET before == TabOf(tabs, calls[i].tab)
                after == TabOf(tabs', calls[i].tab)
            IN /\ Len(RowsOf(after)) > Len(RowsOf(before))
               /\ SubSeq(RowsOf(after), 1, Len(RowsOf(before))) = RowsOf(before)
               /\ Get(after.pagination).offset
                    = Get(before.pagination).offset + Get(before.pagination).limit]_vars

\* C7: the step that takes the failure of the fetch of a loadMore leaves
\* the tab with isLoading = false and with its rows, columns, offset, limit
\* and hasMore as they were.
C7_LoadMoreFailureKeepsWindow ==
  [][(last'.op = "loadMoreRejects" /\ last'.tab \in OpenIds(tabs))
       => LET before == TabOf(tabs, last'.tab)
              after == TabOf(tabs', last'.tab)
          IN /\ ~Get(after.pagination).isLoading
             /\ after.results = before.results
             /\ Get(after.pagination).offset = Get(before.pagination).offset
             /\ Get(after.pagination).limit = Get(before.pagination).limit
             /\ Get(after.pagination).hasMore = Get(before.pagination).hasMore]_vars

\* C7 happens: the fetch of a loadMore has just failed on a tab that shows
\* a page of rows and could load more
C7_Witness ==
  /\ last.op = "loadMoreRejects"
  /\ last.tab \in OpenIds(tabs)
  /\ Len(RowsOf(TabOf(tabs, last.tab))) = PageSize
  /\ Get(TabOf(tabs, last.tab).pagination).hasMore
  /\ ~Get(TabOf(tabs, last.tab).pagination).isLoading

\* C8: when the executor rejects a statement issued for a tab that is
\* open, the message is recorded in the error of that tab.
C8_RejectionIsRecordedOnTab ==
  [][(last'.op \in Rejections \ {"loadMoreRejects"} /\ last'.tab \in OpenIds(tabs))
       => TabOf(tabs', last'.tab).error # None]_vars

(***************************************************************************)
(* C9, C10: what runQuery sends.                                           *)
(***************************************************************************)
\* the step is a runQuery for tab id, called by the Run button or by
\* executeUpdate, that sends its statement: the call is the last of calls'
runQuerySends(id) ==
  /\ id \in OpenIds(tabs)
  /\ \/ last' = Ran("runQuery", id) /\ Len(calls') = Len(calls) + 1
     \/ last' = Ran("executeUpdateResolves", id) /\ Len(calls') = Len(calls)
\* the statement that step sends, and the auto-limit it was computed with
SentSql == calls'[Len(calls')].sql
SentAutoLimit == calls'[Len(calls')].autoLimit

\* C9: for a tab of viewType data the statement runQuery sends is the
\* query of the tab, unchanged.
C9_DataTabSentUnchanged ==
  [][\A id \in TabIds :
       (runQuerySends(id) /\ TabOf(tabs, id).viewType = "data")
         => SentSql = TabOf(tabs, id).query]_vars

\* the cases in which the statement must not be rewritten: the text holds
\* LIMIT or TOP in any letter case, or its trimmed text does not start
\* with SELECT in any letter case, or the auto-limit is not positive
LeftAlone(query, limit) ==
  \/ includes(toUpperCase(query), kwLIMIT)
  \/ includes(toUpperCase(query), kwTOP)
  \/ ~startsWith(toUpperCase(trim(query)), kwSELECT)
  \/ limit <= 0

\* C10: in those cases the statement runQuery sends is exactly the query
\* of the tab.
C10_LeftAloneSentUnchanged ==
  [][\A id \in TabIds :
       (runQuerySends(id) /\ LeftAlone(TabOf(tabs, id).query, SentAutoLimit))
         => SentSql = TabOf(tabs, id).query]_vars

\* C10 happens: a statement that holds TOP in lower case is in flight as
\* typed, sent for a registered connection with a positive auto-limit
C10_Witness ==
  /\ last.op = "runQuery"
  /\ \E k \in DOMAIN calls :
       /\ calls[k].kind = "run" /\ calls[k].sql = qHasTop
       /\ calls[k].autoLimit > 0 /\ calls[k].conn \in connections
       /\ calls[k].tab \in OpenIds(tabs) /\ TabOf(tabs, calls[k].tab).query = qHasTop

(***************************************************************************)
(* C11: the rewritten statement.                                           *)
(***************************************************************************)
\* the connection the step sends to, and its dialect
SentConn == calls'[Len(calls')].conn
SentDialect == IF SentConn \in connections THEN ConnType(SentConn) ELSE "none"

\* C11: for a statement that starts with SELECT and holds neither LIMIT nor
\* TOP, sent with an auto-limit n > 0, the text sent is
\* SELECT TOP n * FROM (<original>) AS subqb for mssql, and the trimmed
\* original followed by " LIMIT n" for every other dialect.
C11_EligibleIsRewritten ==
  [][\A id \in TabIds :
       (runQuerySends(id) /\ ~LeftAlone(TabOf(tabs, id).query, SentAutoLimit))
         => SentSql =
              IF SentDialect = "mssql"
                THEN <<"S","E","L","E","C","T"," ","T","O","P"," ">> \o NumStr(SentAutoLimit)
                       \o <<" ","*"," ","F","R","O","M"," ","(">> \o TabOf(tabs, id).query
                       \o <<")"," ","A","S"," ","s","u","b","q","b">>
                ELSE trim(TabOf(tabs, id).query) \o <<" ","L","I","M","I","T"," ">>
                       \o NumStr(SentAutoLimit)]_vars

\* C11 happens: a padded lower-case select is in flight, wrapped for the mssql
\* connection, or for the postgres connection as the
\* trimmed text with LIMIT appended
C11_Witness ==
  /\ last.op = "runQuery"
  /\ \E k \in DOMAIN calls :
       /\ calls[k].kind = "run" /\ calls[k].autoLimit = DefaultAutoLimit
       /\ TabOf(tabs, calls[k].tab).query = qLowerPadded
       /\ \/ calls[k].conn = "ms"
             /\ calls[k].sql = txSelectTop \o NumStr(DefaultAutoLimit) \o txStarFromParen
                                 \o qLowerPadded \o txAsSubqb
          \/ calls[k].conn = "pg"
             /\ calls[k].sql = <<"s","e","l","e","c","t"," ","a">> \o txLimit
                                 \o NumStr(DefaultAutoLimit)

(***************************************************************************)
(* C12: executes of different tabs.                                        *)
(***************************************************************************)
\* the steps that start an execute, a fetch or an edit of a tab
Starts == {"runQuery", "handleTableClick", "handleLoadMore", "deleteRow", "updateCell"}

\* C12: a step that starts an execute of one tab, or takes the success or
\* the failure of one, changes no field of any other tab: every other tab
\* stays at its position as it was.
C12_OtherTabsUntouched ==
  [][(last'.op \in Starts \cup Resolutions \cup Rejections)
       => \A i \in DOMAIN tabs :
            tabs[i].id # last'.tab => (i \in DOMAIN tabs' /\ tabs'[i] = tabs[i])]_vars

\* C12 happens: an execute has just been started or completed for one tab
\* while another tab is executing, and two tabs have been executing at once
C12_Witness ==
  /\ last.op \in {"runQuery", "handleTableClick", "runQueryResolves", "runQueryRejects"}
  /\ \E i \in DOMAIN tabs : tabs[i].id # last.tab /\ tabs[i].isExecuting
  /\ \E i, j \in DOMAIN tabs :
       /\ i # j
       /\ CallsOf(tabs[i].id, ExecuteKinds) # {}
       /\ CallsOf(tabs[j].id, ExecuteKinds) # {}

(***************************************************************************)
(* C13: runQuery without a tab or without a connection.                    *)
(***************************************************************************)
\* C13: a runQuery (of the Run button, or the refresh of executeUpdate) for
\* an id that names no open tab, or for a tab with no connection of its own
\* while no connection is active, sends no call and changes no tab.
C13_RunQueryWithoutTabOrConnIsNoOp ==
  [][\A id \in TabIds \cup {NoId} :
       (/\ \/ last' = Ran("runQuery", id)
           \/ last' = Ran("executeUpdateResolves", id)
        /\ \/ id \notin OpenIds(tabs)
           \/ TabOf(tabs, id).connName = NoConn /\ activeConnName = NoConn)
         => /\ tabs' = tabs
            /\ \A k \in DOMAIN calls' : \E j \in DOMAIN calls : calls'[k] = calls[j]
            /\ Len(calls') <= Len(calls)]_vars

\* C13 happens: runQuery has just returned for a tab that has no
\* connection while none is active, although connections are registered
C13_Witness ==
  /\ last.op = "runQuery"
  /\ last.tab \in OpenIds(tabs)
  /\ TabOf(tabs, last.tab).connName = NoConn
  /\ activeConnName = NoConn
  /\ connections # {}
  /\ ~TabOf(tabs, last.tab).isExecuting
  /\ calls = <<>>

(***************************************************************************)
(* C14: the three steps of a runQuery.                                     *)
(***************************************************************************)
\* C14: the step of a runQuery that starts sets isExecuting and clears the
\* error of its tab; the step that takes its success makes the result of
\* the executor the results of the tab, whole, and ends isExecuting; the
\* step that takes its failure makes the message of the executor the error
\* of the tab and ends isExecuting.
C14_RunQuerySteps ==
  [][\A id \in OpenIds(tabs) :
       LET before == TabOf(tabs, id)
           after == TabOf(tabs', id)
       IN /\ runQuerySends(id)
               => /\ after.isExecuting /\ after.error = None
                  /\ after.results = before.results
          /\ last' = Ran("runQueryResolves", id)
               => /\ \E res \in RunAnswers : after.results = Some(res)
                  /\ ~after.isExecuting
                  /\ after.error = before.error
          /\ last' = Ran("runQueryRejects", id)
               => /\ \E msg \in ErrorMessages : after.error = Some(msg)
                  /\ ~after.isExecuting
                  /\ after.results = before.results]_vars

\* C14 happens: the refresh of a data tab has just succeeded and its result
\* has taken the place of the page of rows the tab showed
C14_Witness ==
  /\ last.op = "runQueryResolves"
  /\ last.tab \in OpenIds(tabs)
  /\ TabOf(tabs, last.tab).viewType = "data"
  /\ IsSome(TabOf(tabs, last.tab).totalRows)
  /\ Get(TabOf(tabs, last.tab).results) \in RunAnswers
  /\ ~TabOf(tabs, last.tab).isExecuting
  /\ TabOf(tabs, last.tab).error = None

(***************************************************************************)
(* C15: where results come from.                                           *)
(***************************************************************************)
\* the continuations that take a successful answer holding rows
RowAnswers == {"runQueryResolves", "tableDataResolves", "loadMoreResolves"}

\* C15: the results of a tab are null when the tab is created, and become
\* non-null only in the step that takes the successful answer of a call
\* issued for that tab; so a tab has results only if such a call succeeded.
C15_ResultsOnlyFromSuccess ==
  [][\A i \in DOMAIN tabs' :
       LET id == tabs'[i].id
       IN /\ id \notin OpenIds(tabs) => tabs'[i].results = None
          /\ (id \in OpenIds(tabs) /\ TabOf(tabs, id).results = None
                /\ tabs'[i].results # None)
               => (last'.op \in RowAnswers /\ last'.tab = id)]_vars

\* C15 happens: one tab has results, and the load of another has just
\* failed and left it with an error and without results
C15_Witness ==
  /\ last.op \in Rejections
  /\ \E i, j \in DOMAIN tabs :
       /\ tabs[i].results # None
       /\ tabs[j].id = last.tab
       /\ tabs[j].results = None /\ tabs[j].error # None

(***************************************************************************)
(* C16: every execute and every load ends.  The executor answers every     *)
(* call: the continuation of a call in flight stays enabled until it is    *)
(* taken, and the specification is fair to the continuations.              *)
(***************************************************************************)
\* some call in flight is answered
Answered ==
  \/ \E i \in DOMAIN calls, msg \in ErrorMessages : runQueryRejects(i, msg)
  \/ \E i \in DOMAIN calls, msg \in ErrorMessages : tableCountRejects(i, msg)
  \/ \E i \in DOMAIN calls, msg \in ErrorMessages : tableDataRejects(i, msg)
  \/ \E i \in DOMAIN calls, msg \in ErrorMessages : loadMoreRejects(i, msg)
  \/ \E i \in DOMAIN calls, msg \in ErrorMessages : executeUpdateRejects(i, msg)
  \/ \E i \in DOMAIN calls, res \in RunAnswers : runQueryResolves(i, res)
  \/ \E i \in DOMAIN calls, n \in CountAnswers : tableCountResolves(i, n)
  \/ \E i \in DOMAIN calls, full \in BOOLEAN : tableDataResolves(i, full)
  \/ \E i \in DOMAIN calls, full \in BOOLEAN : loadMoreResolves(i, full)
  \/ \E i \in DOMAIN calls : executeUpdateResolves(i)

\* a session of the user over the operations that execute or load: tables
\* are opened, paged, edited and closed, statements are run
NextSession ==
  \/ loadConnections
  \/ \E name \in ConnNames : setActiveConnName(name)
  \/ \E id \in TabIds : setActiveTabId(id)
  \/ \E id \in OpenIds(tabs) : closeTab(id)
  \/ (sent < MaxSessionSends /\ clickRun)
  \/ (sent < MaxSessionSends
        /\ \E name \in TableNames, sch \in SelectedSchemas :
             handleTableClick(name, sch))
  \/ (sent < MaxSessionSends /\ \E id \in OpenIds(tabs) : handleLoadMore(id))
  \/ (sent < MaxSessionSends /\ confirmDeleteRow)
  \/ Answered

SpecFair == Init /\ [][NextSession]_vars /\ WF_vars(Answered)

\* tab id is open and executing / open and loading a page
Executing(id) == id \in OpenIds(tabs) /\ TabOf(tabs, id).isExecuting
Loading(id) ==
  /\ id \in OpenIds(tabs)
  /\ IsSome(TabOf(tabs, id).pagination)
  /\ Get(TabOf(tabs, id).pagination).isLoading

\* C16: when every call is answered, a tab that is executing eventually is
\* not (it stopped, or was closed), and a tab whose pagination is loading
\* eventually is not.
C16_ExecutingAndLoadingEnd ==
  \A id \in TabIds :
    /\ Executing(id) ~> ~Executing(id)
    /\ Loading(id) ~> ~Loading(id)

\* C16 happens: the last call in flight has just been answered, and the
\* tab it was for, a data tab that was executing and loading, is at rest
C16_Witness ==
  /\ last.op \in {"tableDataResolves", "tableDataRejects", "tableCountRejects"}
  /\ last.tab \in OpenIds(tabs)
  /\ ~Executing(last.tab) /\ ~Loading(last.tab)
  /\ calls = <<>>

(***************************************************************************)
(* The results grid (QueryEditor.tsx): rows are added, edited and deleted. *)
(***************************************************************************)
\* the active tab is open and has results: the grid is rendered
ShowsResults ==
  activeTabId \in OpenIds(tabs) /\ IsSome(TabOf(tabs, activeTabId).results)
\* the "Add Row" button above the grid of a data tab that has rows, and the
\* "Create Data" button of a grid without rows
clickAddRow ==
  /\ ShowsResults
  /\ LET tab == TabOf(tabs, activeTabId)
     IN \/ (tab.viewType = "data" /\ Get(tab.results).rows # <<>>)
        \/ (Get(tab.results).rows = <<>> /\ ~tab.isAddingRow)
  /\ handleAddRow(activeTabId)
\* the draft row is rendered while the active tab is adding a row: its
\* Save and Cancel buttons and one input for each column
ShowsNewRow == ShowsResults /\ TabOf(tabs, activeTabId).isAddingRow
clickSaveNewRow == ShowsNewRow /\ handleSaveNewRow(activeTabId)
clickCancelAddRow == ShowsNewRow /\ handleCancelAddRow(activeTabId)
\* e.target.value of an input of the draft row
NewRowTexts == {<<"7">>}
typeNewRowData(colIndex, text) ==
  /\ ShowsNewRow
  /\ colIndex \in 1..Len(Get(TabOf(tabs, activeTabId).results).columns)
  /\ handleUpdateNewRowData(activeTabId,
                            Get(TabOf(tabs, activeTabId).results).columns[colIndex],
                            VStr(text))
\* answers to a statement run from the editor: no row, or one
GridRunAnswers ==
  { [columns |-> Columns, rows |-> <<>>],
    [columns |-> Columns, rows |-> <<BackendRow(1)>>] }

NextGrid ==
  \/ loadConnections
  \/ \E name \in ConnNames : setActiveConnName(name)
  \/ \E id \in TabIds : setActiveTabId(id)
  \/ \E id \in OpenIds(tabs) : closeTab(id)
  \/ (sent < MaxGridSends /\ clickRun)
  \/ \E i \in DOMAIN calls, res \in GridRunAnswers : runQueryResolves(i, res)
  \/ \E i \in DOMAIN calls, msg \in ErrorMessages : runQueryRejects(i, msg)
  \/ (sent < MaxGridSends
        /\ \E name \in TableNames, sch \in SelectedSchemas :
             handleTableClick(name, sch))
  \/ \E i \in DOMAIN calls, n \in CountAnswers : tableCountResolves(i, n)
  \/ \E i \in DOMAIN calls, msg \in ErrorMessages : tableCountRejects(i, msg)
  \/ \E i \in DOMAIN calls, full \in BOOLEAN : tableDataResolves(i, full)
  \/ \E i \in DOMAIN calls, msg \in ErrorMessages : tableDataRejects(i, msg)
  \/ (sent < MaxGridSends /\ confirmDeleteRow)
  \/ (sent < MaxGridSends
        /\ \E col \in 1..Len(Columns), v \in NewValues : confirmUpdateCell(col, v))
  \/ clickAddRow
  \/ \E col \in 1..Len(Columns), text \in NewRowTexts : typeNewRowData(col, text)
  \/ (sent < MaxGridSends /\ clickSaveNewRow)
  \/ clickCancelAddRow
  \/ \E i \in DOMAIN calls : executeUpdateResolves(i)
  \/ \E i \in DOMAIN calls, msg \in ErrorMessages : executeUpdateRejects(i, msg)

SpecGrid == Init /\ [][NextGrid]_vars

(***************************************************************************)
(* C17, C18: the tab strip.  Tabs are opened with the + button, selected,  *)
(* typed into and closed from the strip and its context menu.              *)
(***************************************************************************)
StripIds == 1..MaxStripTabs
StripTexts == {qInitial, qNotSelect}

NextStrip ==
  \/ (nextId <= MaxStripTabs /\ createNewTab(titleNewQuery, <<>>, NoConn))
  \/ \E id \in StripIds : setActiveTabId(id)
  \/ \E q \in StripTexts : updateActiveTabQuery(q)
  \/ \E id \in OpenIds(tabs) : closeTab(id)
  \/ closeAllTabs
  \/ \E id \in OpenIds(tabs) : closeTabsToRight(id)

SpecStrip == Init /\ [][NextStrip]_vars

\* C17: closeTab(id) of the active tab makes the last of the remaining tabs
\* active; when id was the only tab no tab is active afterwards; closeTab of
\* a tab that is not the active one leaves the active tab as it was.
C17_CloseTabMovesActive ==
  [][last'.op = "closeTab" =>
       LET id == last'.tab
       IN /\ (activeTabId = id /\ Len(tabs') > 0)
               => activeTabId' = tabs'[Len(tabs')].id
          /\ (Len(tabs) = 1 /\ tabs[1].id = id) => activeTabId' = NoId
          /\ activeTabId # id => activeTabId' = activeTabId]_vars

\* C17 happens: the first of the strip was closed, two later tabs remain and
\* the last of them is the active one
C17_Witness ==
  /\ last.op = "closeTab"
  /\ Len(tabs) >= 2
  /\ \A i \in DOMAIN tabs : last.tab < tabs[i].id
  /\ activeTabId = tabs[Len(tabs)].id

\* the tabs of after are tabs of before, unchanged and in the order of before
KeptInOrder(before, after) ==
  /\ \A i \in DOMAIN after :
       /\ after[i].id \in OpenIds(before)
       /\ after[i] = TabOf(before, after[i].id)
  /\ \A i, j \in DOMAIN after :
       i < j => findIndex(before, after[i].id) < findIndex(before, after[j].id)

\* C18: closeTab(id) removes the tab id and no other, closeTabsToRight(id)
\* removes the tabs positioned after id and no other, closeAllTabs removes
\* every tab; the tabs that remain are unchanged and in their former order.
C18_CloseRemovesExactly ==
  [][/\ last'.op = "closeTab"
          => /\ OpenIds(tabs') = OpenIds(tabs) \ {last'.tab}
             /\ KeptInOrder(tabs, tabs')
     /\ last'.op = "closeTabsToRight"
          => /\ OpenIds(tabs') =
                  {tabs[i].id : i \in {k \in DOMAIN tabs :
                                        k <= findIndex(tabs, last'.tab)}}
             /\ KeptInOrder(tabs, tabs')
     /\ last'.op = "closeAllTabs" => tabs' = <<>>]_vars

\* C18 happens: the tabs right of the second tab were closed, after four
\* tabs had been opened and one of them typed into
C18_Witness ==
  /\ last.op = "closeTabsToRight"
  /\ nextId = MaxStripTabs + 1
  /\ Len(tabs) = 2
  /\ tabs[2].id = last.tab
  /\ tabs[1].query # tabs[2].query

(***************************************************************************)
(* C19, C20: synthesized statements and the draft row.                     *)
(***************************************************************************)
\* C19: the step in which the statement of an executeUpdate (an INSERT, an
\* UPDATE or a DELETE) succeeds sends, when its tab is still open, the tab's
\* query to the executor on the tab's connection; the step in which it fails
\* sends nothing and leaves the results of every tab as they were.
C19_RefetchAfterSuccessOnly ==
  [][/\ (last'.op = "executeUpdateResolves" /\ last'.tab \in OpenIds(tabs))
          => /\ Len(calls') = Len(calls)
             /\ LET c == calls'[Len(calls')]
                    tab == TabOf(tabs, last'.tab)
                IN /\ c.kind = "run" /\ c.tab = last'.tab /\ c.conn = tab.connName
                   /\ \E n \in {c.autoLimit}, d \in {"mssql", "postgres", "none"} :
                        c.sql = FinalSql(tab.query, n, d)
     /\ last'.op = "executeUpdateRejects"
          => /\ \E i \in DOMAIN calls : calls' = RemoveAt(calls, i)
             /\ Len(tabs') = Len(tabs)
             /\ \A k \in DOMAIN tabs :
                  tabs'[k].id = tabs[k].id /\ tabs'[k].results = tabs[k].results]_vars

\* C19 happens: an INSERT made from a draft row has succeeded and the
\* re-fetch of its tab is in flight
C19_Witness ==
  /\ last.op = "executeUpdateResolves"
  /\ last.tab \in OpenIds(tabs)
  /\ \E i \in DOMAIN calls :
       calls[i].kind = "run" /\ calls[i].tab = last.tab /\ calls[i].save

\* the step completes a handleSaveNewRow of the tab last'.tab: the handler
\* returned without sending, or the executeUpdate it awaited returned
SaveCompletes ==
  \/ (last'.op = "handleSaveNewRow" /\ calls' = calls)
  \/ /\ last'.op \in {"executeUpdateResolves", "executeUpdateRejects",
                       "runQueryResolves", "runQueryRejects"}
     /\ \E i \in DOMAIN calls :
          calls' = RemoveAt(calls, i) /\ calls[i].save /\ calls[i].tab = last'.tab

\* C20: a tab that has a draft row is adding a row, and after the step that
\* completes handleSaveNewRow or handleCancelAddRow the tab has no draft row
\* and is not adding a row.
C20_DraftOnlyWhileAuthoring ==
  [][/\ \A i \in DOMAIN tabs' : IsSome(tabs'[i].newRowData) => tabs'[i].isAddingRow
     /\ ((SaveCompletes \/ last'.op = "handleCancelAddRow")
           /\ last'.tab \in OpenIds(tabs'))
          => (~TabOf(tabs', last'.tab).isAddingRow
                /\ TabOf(tabs', last'.tab).newRowData = None)]_vars

(***************************************************************************)
(* C21: saving an empty draft row.                                         *)
(***************************************************************************)
\* C21: handleSaveNewRow on a tab whose draft row has no column sends no
\* statement, leaves the tab without draft row and out of row-insert
\* authoring, and leaves the error of the tab as it was.
C21_EmptyDraftIsDiscarded ==
  [][\A id \in OpenIds(tabs) :
       (last' = Ran("handleSaveNewRow", id) /\ TabOf(tabs, id).newRowData = Some(<<>>))
         => /\ calls' = calls
            /\ id \in OpenIds(tabs')
            /\ TabOf(tabs', id).newRowData = None
            /\ ~TabOf(tabs', id).isAddingRow
            /\ TabOf(tabs', id).error = TabOf(tabs, id).error]_vars

(***************************************************************************)
(* C22: the pagination after a page was fetched.                           *)
(***************************************************************************)
\* C22: the step that takes the first page of an opened table leaves the tab
\* with pagination limit = PageSize, offset = 0, isLoading = false and
\* hasMore = (the page has PageSize rows); the step that takes a further
\* page leaves isLoading = false and hasMore = (the page has limit rows).
C22_PaginationAfterPage ==
  [][/\ (last'.op = "tableDataResolves" /\ last'.tab \in OpenIds(tabs))
          => LET after == TabOf(tabs', last'.tab)
             IN after.pagination =
                  Some([limit |-> PageSize, offset |-> 0,
                        hasMore |-> Len(RowsOf(after)) = PageSize,
                        isLoading |-> FALSE])
     /\ (last'.op = "loadMoreResolves" /\ last'.tab \in OpenIds(tabs))
          => LET before == TabOf(tabs, last'.tab)
                 after == TabOf(tabs', last'.tab)
                 page == Len(RowsOf(after)) - Len(RowsOf(before))
             IN /\ ~Get(after.pagination).isLoading
                /\ Get(after.pagination).hasMore <=> page = Get(after.pagination).limit]_vars

\* C22 happens: a further page shorter than limit has just been appended to
\* a full first page
C22_Witness ==
  /\ last.op = "loadMoreResolves"
  /\ last.tab \in OpenIds(tabs)
  /\ Len(RowsOf(TabOf(tabs, last.tab))) = PageSize + 1
  /\ ~Get(TabOf(tabs, last.tab).pagination).hasMore
  /\ ~Get(TabOf(tabs, last.tab).pagination).isLoading

(***************************************************************************)
(* Sort: handleSort, and the sort of the rows on display, which the grid   *)
(* does whenever it renders (QueryEditor.tsx).                             *)
(***************************************************************************)
\* a variant of handleSort whose third click on a column unsets the sort
handleSortBackToUnset(colName) ==
  /\ tabs' = MapTab(tabs, activeTabId,
        LAMBDA t :
          [t EXCEPT !.sortState =
             IF IsSome(t.sortState) /\ Get(t.sortState).col = colName
               THEN (IF Get(t.sortState).dir = "asc"
                       THEN Some([col |-> colName, dir |-> "desc"]) ELSE None)
               ELSE Some([col |-> colName, dir |-> "asc"])])
  /\ last' = Ran("handleSort", activeTabId)
  /\ UNCHANGED <<activeTabId, connections, activeConnName, autoLimit, calls, nextId, sent>>

handleSort(colName) ==
  /\ tabs' = MapTab(tabs, activeTabId,
        LAMBDA t :
          [t EXCEPT !.sortState =
             Some([col |-> colName,
                   dir |-> IF /\ IsSome(t.sortState)
                              /\ Get(t.sortState).col = colName
                              /\ Get(t.sortState).dir = "asc"
                             THEN "desc" ELSE "asc"])])
  /\ last' = Ran("handleSort", activeTabId)
  /\ UNCHANGED <<activeTabId, connections, activeConnName, autoLimit, calls, nextId, sent>>

\* a click on the header of a column of the grid
clickSort(colIndex) ==
  /\ ShowsResults
  /\ colIndex \in 1..Len(Get(TabOf(tabs, activeTabId).results).columns)
  /\ handleSort(Get(TabOf(tabs, activeTabId).results).columns[colIndex])

\* the characters of the texts, in the order of their UTF-16 code units
CharOrder == <<" ", "'", "+", "-", ".">> \o Digits \o Upper \o Lower
CodeOf(c) == CHOOSE i \in 1..Len(CharOrder) : CharOrder[i] = c
\* strA < strB of two strings
RECURSIVE StrLess(_, _)
StrLess(x, y) ==
  IF y = <<>> THEN FALSE
  ELSE IF x = <<>> THEN TRUE
  ELSE IF Head(x) = Head(y) THEN StrLess(Tail(x), Tail(y))
  ELSE CodeOf(Head(x)) < CodeOf(Head(y))

Sign(n) == IF n < 0 THEN 0 - 1 ELSE IF n > 0 THEN 1 ELSE 0

\* the comparator given to displayRows.sort, by the sign of what it returns
compareCells(valA, valB, dir) ==
  IF valA = valB THEN 0
  ELSE IF valA.t = "null" THEN 1
  ELSE IF valB.t = "null" THEN 0 - 1
  ELSE IF valA.t = "number" /\ valB.t = "number"
    THEN (IF dir = "asc" THEN Sign(valA.n - valB.n) ELSE Sign(valB.n - valA.n))
  ELSE LET strA == toLowerCase(StringOf(valA))
           strB == toLowerCase(StringOf(valB))
       IN IF StrLess(strA, strB) THEN (IF dir = "asc" THEN 0 - 1 ELSE 1)
          ELSE IF StrLess(strB, strA) THEN (IF dir = "asc" THEN 1 ELSE 0 - 1)
          ELSE 0

\* Array.prototype.sort is stable; with a consistent comparator every
\* engine returns what this insertion sort returns
RECURSIVE sortInsert(_, _, _, _)
sortInsert(sorted, row, colIdx, dir) ==
  IF sorted = <<>> THEN <<row>>
  ELSE LET lastRow == sorted[Len(sorted)]
       IN IF compareCells(lastRow[colIdx], row[colIdx], dir) <= 0
            THEN Append(sorted, row)
            ELSE Append(sortInsert(SubSeq(sorted, 1, Len(sorted) - 1), row, colIdx, dir),
                        lastRow)
RECURSIVE stableSort(_, _, _)
stableSort(rows, colIdx, dir) ==
  IF rows = <<>> THEN <<>>
  ELSE sortInsert(stableSort(SubSeq(rows, 1, Len(rows) - 1), colIdx, dir),
                  rows[Len(rows)], colIdx, dir)

\* the comparator is a consistent comparator for the cells of the column
\* (ECMAScript, Array.prototype.sort)
consistentComparator(rows, colIdx, dir) ==
  LET vals == {rows[i][colIdx] : i \in 1..Len(rows)}
      cmp(a, b) == compareCells(a, b, dir)
  IN /\ \A a, b \in vals : cmp(a, b) = 0 - cmp(b, a)
     /\ \A a, b, c \in vals : (cmp(a, b) <= 0 /\ cmp(b, c) <= 0) => cmp(a, c) <= 0

\* the rows in every order
permutations(rows) ==
  {[i \in 1..Len(rows) |-> rows[p[i]]] :
     p \in {q \in [1..Len(rows) -> 1..Len(rows)] :
              \A i, j \in 1..Len(rows) : q[i] = q[j] => i = j}}

\* what displayRows.sort can leave in the array: with a comparator that is
\* not consistent the order is implementation-defined
sortOutcomes(rows, colIdx, dir) ==
  IF consistentComparator(rows, colIdx, dir)
    THEN {stableSort(rows, colIdx, dir)}
    ELSE permutations(rows)

\* results.columns.indexOf(col), counted from 1; 0 stands for -1
indexOfColumn(columns, col) ==
  IF \E i \in 1..Len(columns) : columns[i] = col
    THEN CHOOSE i \in 1..Len(columns) :
           columns[i] = col /\ \A j \in 1..(i - 1) : columns[j] # col
    ELSE 0

\* a variant of renderGrid that sorts results.rows itself
renderGridInPlace(results, sortState) ==
  LET colIdx == IF IsSome(sortState)
                  THEN indexOfColumn(results.columns, Get(sortState).col) ELSE 0
  IN IF colIdx = 0
       THEN {[rows |-> results.rows, displayRows |-> results.rows]}
       ELSE {[rows |-> out, displayRows |-> out] :
               out \in sortOutcomes(results.rows, colIdx, Get(sortState).dir)}

\* one rendering of the grid: displayRows is a copy of results.rows, sorted
\* when the tab has a sort state whose column is among the columns; rows is
\* results.rows as the rendering leaves it
renderGrid(results, sortState) ==
  LET colIdx == IF IsSome(sortState)
                  THEN indexOfColumn(results.columns, Get(sortState).col) ELSE 0
  IN IF colIdx = 0
       THEN {[rows |-> results.rows, displayRows |-> results.rows]}
       ELSE {[rows |-> results.rows, displayRows |-> out] :
               out \in sortOutcomes(results.rows, colIdx, Get(sortState).dir)}

(***************************************************************************)
(* A table that has been opened from the sidebar and has its first page.   *)
(***************************************************************************)
\* the tab handleTableClick(tableName) appends, after its page res arrived
loadedTab(id, tableName, connName, res) ==
  tableDataApplied(
    [ Tab(id, tableName,
          constructSelectQuery(tableName, ConnType(connName), PageSize, 0, <<>>),
          connName, "data")
        EXCEPT !.isExecuting = TRUE,
               !.tableName = tableName,
               !.schema = <<>>,
               !.pagination = Some([limit |-> PageSize, offset |-> 0,
                                    hasMore |-> TRUE, isLoading |-> TRUE]) ],
    [ Call("data", id, connName, <<>>)
        EXCEPT !.limit = PageSize, !.offset = 0, !.total = Len(res.rows) ],
    res)

\* the page after loadConnections, setActiveConnName(connName),
\* handleTableClick and the two answers of the executor, the second being res
InitLoaded(connName, res) ==
  /\ tabs = << Tab(1, titleQuery1, qInitial, NoConn, "query"),
               loadedTab(2, CHOOSE name \in TableNames : TRUE, connName, res) >>
  /\ activeTabId = 2
  /\ connections = ConnNames
  /\ activeConnName = connName
  /\ autoLimit = DefaultAutoLimit
  /\ calls = <<>>
  /\ nextId = 3
  /\ sent = 1
  /\ last = Ran("tableDataResolves", 2)

\* the cells of the column v of the tables that are sorted
SortCells ==
  { VNull, VNum(2), VNum(10), VStr(<<"1", "a">>), VStr(<<"B">>), VStr(<<"b">>) }
\* pages of up to MaxSortRows rows: id is the place of the row in the page
SortAnswers ==
  UNION { { [columns |-> Columns, rows |-> [k \in 1..n |-> <<VNum(k), cells[k]>>]] :
              cells \in [1..n -> SortCells] } : n \in 0..MaxSortRows }

InitSort == \E res \in SortAnswers : InitLoaded("pg", res)

NextSort ==
  \/ \E col \in 1..Len(Columns) : clickSort(col)
  \/ \E id \in TabIds : setActiveTabId(id)
  \/ \E id \in OpenIds(tabs) : closeTab(id)

SpecSort == InitSort /\ [][NextSort]_vars

(***************************************************************************)
(* C23..C26: sorting.                                                      *)
(***************************************************************************)
\* C23: handleSort leaves its tab with a sort state on a column of the grid:
\* ascending when the tab had none, descending when it was ascending on that
\* column, ascending when it was descending on that column; and no step
\* takes the sort state of a tab away.
C23_SortCycle ==
  [][/\ (last'.op = "handleSort" /\ last'.tab \in OpenIds(tabs))
          => LET b == TabOf(tabs, last'.tab).sortState
                 a == TabOf(tabs', last'.tab).sortState
                 columns == Get(TabOf(tabs, last'.tab).results).columns
             IN /\ IsSome(a)
                /\ \E k \in 1..Len(columns) : columns[k] = Get(a).col
                /\ b = None => Get(a).dir = "asc"
                /\ (IsSome(b) /\ Get(b).col = Get(a).col /\ Get(b).dir = "asc")
                     => Get(a).dir = "desc"
                /\ (IsSome(b) /\ Get(b).col = Get(a).col /\ Get(b).dir = "desc")
                     => Get(a).dir = "asc"
     /\ \A id \in OpenIds(tabs) \cap OpenIds(tabs') :
          IsSome(TabOf(tabs, id).sortState) => IsSome(TabOf(tabs', id).sortState)]_vars

\* C23 happens: a second click on the header of v made the sort descending
C23_Witness ==
  /\ last.op = "handleSort"
  /\ last.tab \in OpenIds(tabs)
  /\ TabOf(tabs, last.tab).sortState = Some([col |-> colV, dir |-> "desc"])

\* C24: handleSort changes the sort state of its tab and nothing else (the
\* results, the pagination and every other field of the tab, and every
\* other tab, stay as they were); rendering the grid of a tab leaves the
\* rows the tab holds as they are, and when the tab has no sort state the
\* rows on display are the rows the tab holds, in their order.
C24_SortIsDisplayOnly ==
  [][/\ last'.op = "handleSort"
          => /\ Len(tabs') = Len(tabs)
             /\ \A k \in DOMAIN tabs :
                  tabs'[k] = IF tabs[k].id = last'.tab
                               THEN [tabs[k] EXCEPT !.sortState = tabs'[k].sortState]
                               ELSE tabs[k]
     /\ \A k \in DOMAIN tabs' :
          IsSome(tabs'[k].results)
            => \A out \in renderGrid(Get(tabs'[k].results), tabs'[k].sortState) :
                 /\ out.rows = Get(tabs'[k].results).rows
                 /\ tabs'[k].sortState = None
                      => out.displayRows = Get(tabs'[k].results).rows]_vars

\* C24 happens: handleSort has run on a tab whose rows are displayed in
\* another order than they are held, and another tab is open
C24_Witness ==
  /\ last.op = "handleSort"
  /\ last.tab \in OpenIds(tabs)
  /\ Len(tabs) = 2
  /\ LET tab == TabOf(tabs, last.tab)
     IN \E out \in renderGrid(Get(tab.results), tab.sortState) :
          out.displayRows # Get(tab.results).rows

\* the tabs whose grid is sorted when it renders: k is the place of the
\* sort column among the columns
SortedTabs ==
  {t \in {tabs[i] : i \in DOMAIN tabs} :
     /\ IsSome(t.results) /\ IsSome(t.sortState)
     /\ indexOfColumn(Get(t.results).columns, Get(t.sortState).col) # 0}
SortColumn(t) == indexOfColumn(Get(t.results).columns, Get(t.sortState).col)

\* value a may stand before value b in a column sorted in direction dir:
\* null after everything else, two numbers by their value, any other pair
\* by their lower-cased texts
InOrder(a, b, dir) ==
  IF b.t = "null" THEN TRUE
  ELSE IF a.t = "null" THEN FALSE
  ELSE IF a.t = "number" /\ b.t = "number"
    THEN (IF dir = "asc" THEN a.n <= b.n ELSE a.n >= b.n)
  ELSE LET strA == toLowerCase(StringOf(a))
           strB == toLowerCase(StringOf(b))
       IN IF dir = "asc" THEN ~StrLess(strB, strA) ELSE ~StrLess(strA, strB)

\* C25: in the rows on display of a sorted grid, ascending or descending,
\* no row with null in the sort column stands before a row with a value
\* there, two numbers stand in numeric order and any other two values in the
\* order of their lower-cased texts (reversed when descending).
C25_SortedOrder ==
  \A t \in SortedTabs :
    \A out \in renderGrid(Get(t.results), t.sortState) :
      \A i, j \in 1..Len(out.displayRows) :
        i < j => InOrder(out.displayRows[i][SortColumn(t)],
                         out.displayRows[j][SortColumn(t)],
                         Get(t.sortState).dir)

\* the place of row r in the sequence rows (the rows of a page differ in
\* their id column, so the place is unique)
PlaceOf(rows, r) == CHOOSE p \in 1..Len(rows) : rows[p] = r

\* out holds the rows of rows, each as often
IsPermutationOf(out, rows) ==
  /\ Len(out) = Len(rows)
  /\ \A r \in {rows[p] : p \in 1..Len(rows)} \cup {out[p] : p \in 1..Len(out)} :
       Cardinality({p \in 1..Len(out) : out[p] = r})
         = Cardinality({p \in 1..Len(rows) : rows[p] = r})

\* C26: the rows on display of a sorted grid are a permutation of the stored
\* rows, two rows whose sort-column values compare equal stand in their
\* stored order, and sorting the rows on display again by the same column
\* and direction returns them unchanged.
C26_StableIdempotentPermutation ==
  \A t \in SortedTabs :
    LET rows == Get(t.results).rows
        k    == SortColumn(t)
        dir  == Get(t.sortState).dir
    IN \A out \in renderGrid(Get(t.results), t.sortState) :
         /\ IsPermutationOf(out.displayRows, rows)
         /\ \A i, j \in 1..Len(rows) :
              (i < j /\ compareCells(rows[i][k], rows[j][k], dir) = 0)
                => PlaceOf(out.displayRows, rows[i]) < PlaceOf(out.displayRows, rows[j])
         /\ \A again \in renderGrid([Get(t.results) EXCEPT !.rows = out.displayRows],
                                     t.sortState) :
              again.displayRows = out.displayRows

(***************************************************************************)
(* C27..C30: the statements of row edits.  A table is open on a connection *)
(* of one of three dialects and shows one row; the row is deleted, or one  *)
(* of its cells is edited and the edit confirmed.                          *)
(***************************************************************************)
SynthConnNames == ConnNames \cup {"my"}
\* the cells of the row: null, a number, both booleans, texts with quotes
SynthCells ==
  { VNull, VNum(42), VBool(TRUE), VBool(FALSE),
    VStr(<<"o", "'", "k">>), VStr(<<"'", "'">>), VStr(<<"A">>) }
SynthAnswers ==
  { [columns |-> Columns, rows |-> << <<a, b>> >>] : a, b \in SynthCells }
\* the texts typed into an edited cell
SynthTexts ==
  { <<"4", "3">>, <<"-", "5">>, <<>>, <<" ">>, <<"a", "b", "c">>,
    <<"t", "r", "u", "e">>, <<"T", "r", "u", "e">>, <<"f", "a", "l", "s", "e">>,
    <<"1">>, <<"0">>, <<"o", "'", "k">>, <<"'">> }

InitSynth ==
  \E connName \in SynthConnNames, res \in SynthAnswers :
    /\ tabs = << Tab(1, titleQuery1, qInitial, NoConn, "query"),
                 loadedTab(2, CHOOSE name \in TableNames : TRUE, connName, res) >>
    /\ activeTabId = 2
    /\ connections = SynthConnNames
    /\ activeConnName = connName
    /\ autoLimit = DefaultAutoLimit
    /\ calls = <<>>
    /\ nextId = 3
    /\ sent = 1
    /\ last = Ran("tableDataResolves", 2)

\* the context menu of row r: Delete Row, confirmed
confirmDeleteRowAt(r) ==
  /\ r \in 1..Len(GridRows)
  /\ deleteRow(activeTabId, GridRows[r], GridColumns)
\* Enter in the input of cell (r, colIndex) without typing, confirmed:
\* editingCell.value is still the value of the cell
confirmUntouchedCell(r, colIndex) ==
  /\ r \in 1..Len(GridRows)
  /\ colIndex \in 1..Len(GridColumns)
  /\ updateCell(activeTabId, GridRows[r], GridColumns, colIndex, GridRows[r][colIndex])
\* Enter in the input of cell (r, colIndex) after typing text, confirmed
confirmTypedCell(r, colIndex, text) ==
  /\ r \in 1..Len(GridRows)
  /\ colIndex \in 1..Len(GridColumns)
  /\ updateCell(activeTabId, GridRows[r], GridColumns, colIndex, VStr(text))

NextSynth ==
  \/ \E id \in TabIds : setActiveTabId(id)
  \/ (sent < MaxSynthSends /\ \E r \in 1..Len(GridRows) : confirmDeleteRowAt(r))
  \/ (sent < MaxSynthSends
        /\ \E r \in 1..Len(GridRows), col \in 1..Len(Columns) : confirmUntouchedCell(r, col))
  \/ (sent < MaxSynthSends
        /\ \E r \in 1..Len(GridRows), col \in 1..Len(Columns), text \in SynthTexts :
             confirmTypedCell(r, col, text))
  \/ \E i \in DOMAIN calls : executeUpdateResolves(i)
  \/ \E i \in DOMAIN calls, msg \in ErrorMessages : executeUpdateRejects(i, msg)
  \/ \E i \in DOMAIN calls, res \in GridRunAnswers : runQueryResolves(i, res)
  \/ \E i \in DOMAIN calls, msg \in ErrorMessages : runQueryRejects(i, msg)

SpecSynth == InitSynth /\ [][NextSynth]_vars

\* text s begins with text p
StartsWith(s, p) == Len(s) >= Len(p) /\ SubSeq(s, 1, Len(p)) = p
\* the step has sent a statement
Sends == Len(calls') = Len(calls) + 1
\* UPDATE <tableRef> SET <col> = <literal> WHERE, the head of an update of
\* column colIndex of the grid of the active tab
UpdateHead(colIndex, literal) ==
  <<"U","P","D","A","T","E"," ">> \o EditTableRef(TabOf(tabs, activeTabId))
    \o <<" ","S","E","T"," ">> \o GridColumns[colIndex] \o <<" ","="," ">> \o literal
    \o <<" ","W","H","E","R","E"," ">>
\* the dialect of the connection of the active tab
GridDbType == EditDbType(TabOf(tabs, activeTabId).connName)
\* the boolean literal of a dialect
BooleanLiteral(b, dbType) ==
  IF dbType = "mssql" THEN (IF b THEN <<"1">> ELSE <<"0">>)
  ELSE (IF b THEN <<"T","R","U","E">> ELSE <<"F","A","L","S","E">>)

\* C27: a cell holding null or a boolean whose edit is confirmed as it is
\* is written into the SET clause as NULL under every dialect, as 1 or 0
\* for true or false under mssql, and as TRUE or FALSE under every other
\* dialect.
C27_NullAndBooleanLiterals ==
  [][\A r \in 1..Len(GridRows), col \in 1..Len(GridColumns) :
       LET val == GridRows[r][col]
       IN (val.t \in {"null", "boolean"} /\ confirmUntouchedCell(r, col) /\ Sends)
            => StartsWith(SentSql,
                 UpdateHead(col, IF val.t = "null" THEN <<"N","U","L","L">>
                                 ELSE BooleanLiteral(val.b, GridDbType)))]_vars
\* an untouched true has been written as 1 for a table on the mssql connection
C27_Witness ==
  /\ last.op = "updateCell" /\ calls # <<>> /\ GridRows # <<>>
  /\ GridDbType = "mssql"
  /\ \E col \in 1..Len(GridColumns) :
       /\ GridRows[1][col] = VBool(TRUE)
       /\ StartsWith(calls[Len(calls)].sql, UpdateHead(col, <<"1">>))

\* the single quotes of text before place i, and all of them
QuotesBefore(text, i) == Cardinality({j \in 1..(i - 1) : text[j] = "'"})
QuoteCount(text) == QuotesBefore(text, Len(text) + 1)
\* inner is text with each single quote written twice
IsDoubled(text, inner) ==
  /\ Len(inner) = Len(text) + QuoteCount(text)
  /\ \A i \in 1..Len(text) :
       LET p == i + QuotesBefore(text, i)
       IN /\ inner[p] = text[i]
          /\ text[i] = "'" => inner[p + 1] = "'"
\* every run of single quotes in inner has an even length
QuotesPaired(inner) ==
  \A i \in 1..Len(inner) :
    (inner[i] = "'" /\ (i = 1 \/ inner[i - 1] # "'"))
      => Cardinality({k \in i..Len(inner) : \A j \in i..k : inner[j] = "'"}) % 2 = 0
\* lit is the quoted literal of text
IsQuotedLiteral(text, lit) ==
  /\ Len(lit) = Len(text) + QuoteCount(text) + 2
  /\ lit[1] = "'" /\ lit[Len(lit)] = "'"
  /\ IsDoubled(text, SubSeq(lit, 2, Len(lit) - 1))
  /\ QuotesPaired(SubSeq(lit, 2, Len(lit) - 1))
\* the n characters of the sent statement that follow SET <col> =
SentLiteral(colIndex, n) ==
  LET head == Len(UpdateHead(colIndex, <<>>)) - Len(txWhere)
  IN SubSeq(SentSql, head + 1, head + n)

\* C28: a text written into the SET clause (typed into a cell that held
\* null or a text, or the untouched text of a cell) is the text with each
\* single quote doubled between one leading and one trailing single quote,
\* so that the quotes between the delimiters come in pairs.
C28_StringLiteralIsQuoted ==
  [][\A r \in 1..Len(GridRows), col \in 1..Len(GridColumns) :
       /\ \A text \in SynthTexts :
            (GridRows[r][col].t \in {"null", "string"}
               /\ confirmTypedCell(r, col, text) /\ Sends)
              => LET lit == SentLiteral(col, Len(text) + QuoteCount(text) + 2)
                 IN /\ IsQuotedLiteral(text, lit)
                    /\ StartsWith(SentSql, UpdateHead(col, lit))
       /\ (GridRows[r][col].t = "string" /\ confirmUntouchedCell(r, col) /\ Sends)
            => LET text == GridRows[r][col].s
                   lit  == SentLiteral(col, Len(text) + QuoteCount(text) + 2)
               IN /\ IsQuotedLiteral(text, lit)
                  /\ StartsWith(SentSql, UpdateHead(col, lit))]_vars
\* the text o'k has been written as 'o''k'
C28_Witness ==
  /\ last.op = "updateCell" /\ calls # <<>> /\ GridRows # <<>>
  /\ \E col \in 1..Len(GridColumns) :
       /\ GridRows[1][col].t \in {"null", "string"}
       /\ StartsWith(calls[Len(calls)].sql,
                     UpdateHead(col, <<"'", "o", "'", "'", "k", "'">>))

\* the term of the predicate for column i of row
PredicateTerm(row, columns, dbType, i) ==
  IF row[i].t = "null"
    THEN columns[i] \o <<" ","I","S"," ","N","U","L","L">>
    ELSE columns[i] \o <<" ","="," ">> \o formatSqlValue(row[i], dbType)
\* the terms of columns 1..n joined by AND
RECURSIVE TermsJoined(_, _, _, _)
TermsJoined(row, columns, dbType, n) ==
  IF n = 0 THEN <<>>
  ELSE IF n = 1 THEN PredicateTerm(row, columns, dbType, 1)
  ELSE TermsJoined(row, columns, dbType, n - 1) \o <<" ","A","N","D"," ">>
         \o PredicateTerm(row, columns, dbType, n)
\* text s ends with text p
EndsWith(s, p) == Len(s) >= Len(p) /\ SubSeq(s, Len(s) - Len(p) + 1, Len(s)) = p

\* C29: the WHERE clause of the statement that deletes or updates a row
\* has one term per column of the grid, in column order, joined by AND:
\* col IS NULL where the row holds null, col = literal elsewhere, the
\* literal being the one the Value Formatter gives for the dialect of the tab.
C29_WhereClausePerColumn ==
  [][\A r \in 1..Len(GridRows) :
       LET where == <<" ","W","H","E","R","E"," ">>
                      \o TermsJoined(GridRows[r], GridColumns, GridDbType, Len(GridColumns))
       IN /\ (confirmDeleteRowAt(r) /\ Sends)
               => SentSql = <<"D","E","L","E","T","E"," ","F","R","O","M"," ">>
                              \o EditTableRef(TabOf(tabs, activeTabId)) \o where
          /\ \A col \in 1..Len(GridColumns) :
               /\ (confirmUntouchedCell(r, col) /\ Sends) => EndsWith(SentSql, where)
               /\ \A text \in SynthTexts :
                    (confirmTypedCell(r, col, text) /\ Sends) => EndsWith(SentSql, where)]_vars
\* a row with a text and a null has been deleted by id = 'A' AND v IS NULL
C29_Witness ==
  /\ last.op = "deleteRow" /\ calls # <<>> /\ GridRows # <<>>
  /\ GridRows[1] = <<VStr(<<"A">>), VNull>>
  /\ EndsWith(calls[Len(calls)].sql,
              <<" ","W","H","E","R","E"," ">> \o colId
                \o <<" ","="," ","'","A","'"," ","A","N","D"," ">> \o colV
                \o <<" ","I","S"," ","N","U","L","L">>)

\* 'text', the literal of a text
QuotedLiteral(text) == formatSqlValue(VStr(text), "postgres")
\* the SET literal that follows the type of the original cell: a number
\* cell takes the empty text as NULL and a text that parses as a number as
\* that number, a boolean cell takes true, 1, false and 0 as booleans, and
\* every other text is quoted
TypedLiteral(original, text, dbType) ==
  IF original.t = "number" /\ text = <<>> THEN <<"N","U","L","L">>
  ELSE IF original.t = "number" /\ IsNumberText(text) THEN NumText(NumberOf(text))
  ELSE IF original.t = "boolean" /\ text \in {<<"t","r","u","e">>, <<"1">>}
    THEN BooleanLiteral(TRUE, dbType)
  ELSE IF original.t = "boolean" /\ text \in {<<"f","a","l","s","e">>, <<"0">>}
    THEN BooleanLiteral(FALSE, dbType)
  ELSE QuotedLiteral(text)

\* C30: the SET value of an update follows the type of the original cell:
\* for a number cell a text that parses as a number is written bare and the
\* empty text as NULL, for a boolean cell the texts true, 1, false and 0 are
\* written as the boolean literal of the dialect, and in every other case
\* the text is written as a quoted string.
C30_SetValueFollowsOriginal ==
  [][\A r \in 1..Len(GridRows), col \in 1..Len(GridColumns), text \in SynthTexts :
       (confirmTypedCell(r, col, text) /\ Sends)
         => StartsWith(SentSql,
              UpdateHead(col, TypedLiteral(GridRows[r][col], text, GridDbType)))]_vars

\* TypedLiteral with the two readings the code takes: a text of whitespace
\* only counts as empty, and true and false are read in any letter case
TypedLiteralFolded(original, text, dbType) ==
  IF original.t = "number" /\ trim(text) = <<>> THEN <<"N","U","L","L">>
  ELSE IF original.t = "number" /\ IsNumberText(text) THEN NumText(NumberOf(text))
  ELSE IF original.t = "boolean"
            /\ (toLowerCase(text) = <<"t","r","u","e">> \/ text = <<"1">>)
    THEN BooleanLiteral(TRUE, dbType)
  ELSE IF original.t = "boolean"
            /\ (toLowerCase(text) = <<"f","a","l","s","e">> \/ text = <<"0">>)
    THEN BooleanLiteral(FALSE, dbType)
  ELSE QuotedLiteral(text)

\* C30 (amended): the SET value of an update follows the type of the
\* original cell: for a number cell a text that parses as a number is
\* written bare, and a text that is empty or holds only whitespace as NULL;
\* for a boolean cell the texts true and false in any letter case, 1 and 0
\* are written as the boolean literal of the dialect; in every other case
\* the text is written as a quoted string.
C30_SetValueFollowsOriginalFolded ==
  [][\A r \in 1..Len(GridRows), col \in 1..Len(GridColumns), text \in SynthTexts :
       (confirmTypedCell(r, col, text) /\ Sends)
         => StartsWith(SentSql,
              UpdateHead(col, TypedLiteralFolded(GridRows[r][col], text, GridDbType)))]_vars
\* the text 43 has been written bare into a cell that held 42
C30_Witness ==
  /\ last.op = "updateCell" /\ calls # <<>> /\ GridRows # <<>>
  /\ \E col \in 1..Len(GridColumns) :
       /\ GridRows[1][col] = VNum(42)
       /\ StartsWith(calls[Len(calls)].sql, UpdateHead(col, <<"4", "3">>))

(***************************************************************************)
(* C31..C40: the tab strip, overlapping executes and table opens.          *)
(***************************************************************************)
\* C31: createNewTab appends the new tab at the end of the tabs, leaves the
\* tabs there were and their order unchanged and makes the new tab the
\* active tab; the new tab has no results and no error.
C31_CreateTabAppends ==
  [][last'.op = "createNewTab"
       => /\ Len(tabs') = Len(tabs) + 1
          /\ SubSeq(tabs', 1, Len(tabs)) = tabs
          /\ tabs'[Len(tabs')].id = last'.tab
          /\ last'.tab \notin OpenIds(tabs)
          /\ activeTabId' = last'.tab
          /\ tabs'[Len(tabs')].results = None
          /\ tabs'[Len(tabs')].error = None]_vars
\* a tab has been created next to two others, one of them typed into
C31_Witness ==
  /\ last.op = "createNewTab" /\ Len(tabs) >= 3
  /\ tabs[Len(tabs)].id = last.tab /\ activeTabId = last.tab
  /\ \E k \in 1..(Len(tabs) - 1) : tabs[k].query = qNotSelect

\* the number of rows in the window of tab t
StoredRows(t) == IF IsSome(t.results) THEN Len(Get(t.results).rows) ELSE 0

\* C32: every windowed select handleLoadMore sends for a tab asks for the
\* offset that equals the number of rows the window of the tab holds, so
\* that the page it fetches starts where the window ends.
C32_LoadMoreOffsetIsStoredRows ==
  [][\A id \in OpenIds(tabs) :
       (last' = Ran("handleLoadMore", id) /\ Sends)
         => calls'[Len(calls')].offset = StoredRows(TabOf(tabs, id))]_vars

\* C33: in every reachable state the active tab id names an open tab when
\* a tab is open, and is the empty id exactly when no tab is open.
C33_ActiveTabIsOpen ==
  /\ tabs # <<>> => activeTabId \in OpenIds(tabs)
  /\ activeTabId = NoId <=> tabs = <<>>
\* every tab has been closed while a call was in flight, and the call was
\* answered afterwards
C33_Witness ==
  /\ tabs = <<>> /\ activeTabId = NoId /\ calls = <<>>
  /\ last.op \in {"runQueryResolves", "tableDataResolves", "tableCountRejects"}

(***************************************************************************)
(* Overlapping executes of one tab: the Run button stays enabled while a   *)
(* statement runs, and the executor answers each statement with rows of    *)
(* its own, in any order.                                                  *)
(***************************************************************************)
\* the answer to the statement that was sent as the n-th
StampedAnswer(n) == [columns |-> Columns, rows |-> <<BackendRow(n)>>]

NextRace ==
  \/ loadConnections
  \/ \E name \in ConnNames : setActiveConnName(name)
  \/ (nextId <= MaxTabs /\ createNewTab(titleNewQuery, <<>>, NoConn))
  \/ \E id \in TabIds : setActiveTabId(id)
  \/ \E q \in StripTexts : updateActiveTabQuery(q)
  \/ (sent < MaxRaceRuns /\ clickRun)
  \/ \E i \in DOMAIN calls : runQueryResolves(i, StampedAnswer(calls[i].seq))
  \/ \E i \in DOMAIN calls, msg \in ErrorMessages : runQueryRejects(i, msg)

SpecRace == Init /\ [][NextRace]_vars

\* the step is the success branch of the run call at place i of calls
RunResolvesAt(i) ==
  /\ calls[i].kind = "run"
  /\ last' = Ran("runQueryResolves", calls[i].tab)
  /\ calls' = RemoveAt(calls, i)

\* C34: of several executes started on one tab, the result of one that was
\* started earlier never replaces the result of one that was started
\* later, so that when all have resolved the tab shows the result of the
\* execute started last.
C34_LastStartedWins ==
  [][\A i \in DOMAIN calls :
       (RunResolvesAt(i) /\ calls[i].tab \in OpenIds(tabs))
         => \A n \in 1..MaxRaceRuns :
              TabOf(tabs, calls[i].tab).results = Some(StampedAnswer(n))
                => n < calls[i].seq]_vars

\* C35: while a call of runQuery or of a table load (the count or the
\* windowed select of handleTableClick) is in flight for an open tab, the
\* tab is executing.
C35_ExecutingWhileInFlight ==
  \A i \in DOMAIN calls :
    (calls[i].kind \in {"run", "count", "data"} /\ calls[i].tab \in OpenIds(tabs))
      => TabOf(tabs, calls[i].tab).isExecuting

\* the calls of runQuery and of table loads in flight for tab id
ExecutesInFlight(cs, id) ==
  {i \in DOMAIN cs : cs[i].kind \in {"run", "count", "data"} /\ cs[i].tab = id}

\* C36: when an execute of a tab completes with success and leaves no
\* execute of the tab in flight, the tab has no error: the message of an
\* earlier execute does not stay next to the results of a later one.
C36_NoErrorAfterSuccess ==
  [][\A id \in OpenIds(tabs') :
       (/\ last' \in {Ran("runQueryResolves", id), Ran("tableDataResolves", id)}
        /\ ExecutesInFlight(calls', id) = {})
         => TabOf(tabs', id).error = None]_vars

(***************************************************************************)
(* Saving draft rows of an open table: the draft row and its Save button   *)
(* stay on the page until the INSERT and the refresh have returned.        *)
(***************************************************************************)
InitSave ==
  \E connName \in ConnNames, res \in GridRunAnswers : InitLoaded(connName, res)

NextSave ==
  \/ clickAddRow
  \/ \E col \in 1..Len(Columns), text \in NewRowTexts : typeNewRowData(col, text)
  \/ (sent < MaxSaveSends /\ clickSaveNewRow)
  \/ clickCancelAddRow
  \/ \E i \in DOMAIN calls : executeUpdateResolves(i)
  \/ \E i \in DOMAIN calls, msg \in ErrorMessages : executeUpdateRejects(i, msg)
  \/ \E i \in DOMAIN calls, res \in GridRunAnswers : runQueryResolves(i, res)
  \/ \E i \in DOMAIN calls, msg \in ErrorMessages : runQueryRejects(i, msg)

SpecSave == InitSave /\ [][NextSave]_vars

\* C37: handleSaveNewRow sends no INSERT for a tab while the INSERT of an
\* earlier save of that tab, or the refresh that follows it, is still in
\* flight: one draft row is sent once.
C37_OneInsertPerDraft ==
  [][\A id \in OpenIds(tabs) :
       (last' = Ran("handleSaveNewRow", id) /\ Sends)
         => ~\E i \in DOMAIN calls : calls[i].save /\ calls[i].tab = id]_vars

(***************************************************************************)
(* Tabs that are edited while their calls are in flight: the statement is  *)
(* retyped, a column header clicked, a draft row started and filled        *)
(* between the sending of a statement and its answer.                      *)
(***************************************************************************)
NextFrame ==
  \/ loadConnections
  \/ setActiveConnName("pg")
  \/ \E id \in TabIds : setActiveTabId(id)
  \/ updateActiveTabQuery(qNotSelect)
  \/ (sent < MaxFrameSends /\ clickRun)
  \/ \E i \in DOMAIN calls, res \in GridRunAnswers : runQueryResolves(i, res)
  \/ \E i \in DOMAIN calls, msg \in ErrorMessages : runQueryRejects(i, msg)
  \/ (sent < MaxFrameSends
        /\ \E name \in TableNames, sch \in SelectedSchemas : handleTableClick(name, sch))
  \/ \E i \in DOMAIN calls, n \in CountAnswers : tableCountResolves(i, n)
  \/ \E i \in DOMAIN calls, msg \in ErrorMessages : tableCountRejects(i, msg)
  \/ \E i \in DOMAIN calls, full \in BOOLEAN : tableDataResolves(i, full)
  \/ \E i \in DOMAIN calls, msg \in ErrorMessages : tableDataRejects(i, msg)
  \/ (sent < MaxFrameSends /\ \E id \in OpenIds(tabs) : handleLoadMore(id))
  \/ \E i \in DOMAIN calls, full \in BOOLEAN : loadMoreResolves(i, full)
  \/ \E i \in DOMAIN calls, msg \in ErrorMessages : loadMoreRejects(i, msg)
  \/ clickSort(1)
  \/ clickAddRow
  \/ \E text \in NewRowTexts : typeNewRowData(1, text)
  \/ (sent < MaxFrameSends /\ clickSaveNewRow)
  \/ \E i \in DOMAIN calls : executeUpdateResolves(i)
  \/ \E i \in DOMAIN calls, msg \in ErrorMessages : executeUpdateRejects(i, msg)

SpecFrame == Init /\ [][NextFrame]_vars

\* the continuations that complete an execute
Completions ==
  { "runQueryResolves", "runQueryRejects", "tableCountRejects", "tableDataResolves",
    "tableDataRejects", "loadMoreResolves", "loadMoreRejects" }
\* the step answers a call that belongs to a save of tab id, so that the
\* rest of handleSaveNewRow runs in it
EndsSave(id) ==
  \E i \in DOMAIN calls : calls[i].tab = id /\ calls[i].save /\ calls' = RemoveAt(calls, i)

\* C38: the completion of an execute of a tab (runQuery, table load or
\* loadMore, with success or failure) changes at most the results, error,
\* isExecuting, pagination and totalRows of that tab: the other tabs, and
\* the query, title, sortState and draft row of the tab as they are at that
\* moment, stay (the draft row is put away by handleSaveNewRow when the
\* completion is the end of its save).
C38_CompletionFrame ==
  [][last'.op \in Completions
       => /\ Len(tabs') = Len(tabs)
          /\ \A k \in DOMAIN tabs :
               IF tabs[k].id # last'.tab THEN tabs'[k] = tabs[k]
               ELSE LET kept == [tabs[k] EXCEPT !.results = tabs'[k].results,
                                               !.error = tabs'[k].error,
                                               !.isExecuting = tabs'[k].isExecuting,
                                               !.pagination = tabs'[k].pagination,
                                               !.totalRows = tabs'[k].totalRows]
                    IN tabs'[k] = IF EndsSave(last'.tab)
                                    THEN [kept EXCEPT !.isAddingRow = FALSE,
                                                      !.newRowData = None]
                                    ELSE kept]_vars
\* a page has been appended to a tab that is sorted and has a draft row
\* with a value in it
C38_Witness ==
  /\ last.op = "loadMoreResolves" /\ last.tab \in OpenIds(tabs)
  /\ TabOf(tabs, last.tab).sortState # None
  /\ TabOf(tabs, last.tab).isAddingRow
  /\ TabOf(tabs, last.tab).newRowData \notin {None, Some(<<>>)}

\* ---- C39: one data tab per connection, table and schema ----

OpenTableNames == {<<"t">>, <<"u">>}
OpenSchemas == {<<>>, txStar, <<"s">>}

\* the sidebar with two tables and a schema selector, the tab strip and the
\* failing count of a table load
NextOpen ==
  \/ loadConnections
  \/ \E name \in ConnNames : setActiveConnName(name)
  \/ \E name \in OpenTableNames, sch \in OpenSchemas : openTable(name, sch, MaxOpenTabs)
  \/ \E id \in OpenIds(tabs) : setActiveTabId(id)
  \/ \E id \in OpenIds(tabs) : closeTab(id)
  \/ \E i \in DOMAIN calls, msg \in ErrorMessages : tableCountRejects(i, msg)

SpecOpen == Init /\ [][NextOpen]_vars

\* the data tabs of connection conn for table name under schema sch
DataTabsOf(ts, conn, name, sch) ==
  {k \in 1..Len(ts) : /\ ts[k].viewType = "data"
                      /\ ts[k].connName = conn
                      /\ ts[k].tableName = name
                      /\ ts[k].schema = sch}

NoDuplicateDataTabs ==
  \A k, m \in 1..Len(tabs) :
    (/\ k < m
     /\ tabs[k].viewType = "data"
     /\ tabs[m].viewType = "data")
      => ~(/\ tabs[k].connName = tabs[m].connName
           /\ tabs[k].tableName = tabs[m].tableName
           /\ tabs[k].schema = tabs[m].schema)

\* the schema a table opened under selection sch is recorded with
OpenedSchema(sch) == IF sch # <<>> /\ sch # txStar THEN sch ELSE <<>>

\* C39: no two data tabs share connection, table name and schema, and a table
\* open that finds a data tab of the active connection for that table and
\* schema makes that tab active, leaves the tabs as they are and sends nothing
C39_OneDataTabPerTable ==
  [][/\ NoDuplicateDataTabs'
     /\ \A name \in OpenTableNames, sch \in OpenSchemas :
          (/\ openTable(name, sch, MaxOpenTabs)
           /\ DataTabsOf(tabs, activeConnName, name, OpenedSchema(sch)) # {})
            => /\ tabs' = tabs
               /\ calls' = calls
               /\ sent' = sent
               /\ \E k \in DataTabsOf(tabs, activeConnName, name, OpenedSchema(sch)) :
                    activeTabId' = tabs[k].id]_vars

\* a table was opened again while another tab was active: its tab became the
\* active one, next to a second data tab of the same table under schema s
C39_Witness ==
  /\ last.op = "handleTableClick"
  /\ calls # <<>>
  /\ activeTabId = last.tab
  /\ \E k, m \in 1..Len(tabs) :
       /\ k < m
       /\ tabs[k].viewType = "data"
       /\ tabs[m].viewType = "data"
       /\ tabs[k].tableName = tabs[m].tableName
       /\ tabs[k].connName = tabs[m].connName
       /\ tabs[k].id = last.tab
       /\ tabs[m].id = nextId - 1
\* ---- C40: closeTabsToRight of any id ----

\* the tab strip whose context menu may name a tab that was closed meanwhile
NextMenu ==
  \/ (nextId <= MaxStripTabs /\ createNewTab(titleNewQuery, <<>>, NoConn))
  \/ \E id \in OpenIds(tabs) : setActiveTabId(id)
  \/ \E id \in OpenIds(tabs) : closeTab(id)
  \/ \E id \in StripIds : closeTabsToRight(id)

SpecMenu == Init /\ [][NextMenu]_vars

\* C40: closeTabsToRight(id) of an id that names no open tab changes nothing;
\* of an open tab, it makes that tab active when the active tab is among the
\* removed ones and leaves the active tab as it was otherwise
C40_CloseRightOfAnyId ==
  [][\A id \in StripIds :
       closeTabsToRight(id)
         => IF id \notin OpenIds(tabs)
              THEN UNCHANGED <<tabs, activeTabId, connections, activeConnName,
                               autoLimit, calls, nextId, sent>>
            ELSE IF activeTabId \in OpenIds(tabs) \ OpenIds(tabs')
              THEN activeTabId' = id
            ELSE activeTabId' = activeTabId]_vars

\* closeTabsToRight ran for a tab that had been closed, with other tabs open
C40_Witness ==
  /\ last.op = "closeTabsToRight"
  /\ last.tab \notin OpenIds(tabs)
  /\ last.tab < nextId
  /\ Len(tabs) >= 2
  /\ activeTabId \in OpenIds(tabs)
====
